---- MODULE Spec2Model ----
(***************************************************************************)
(* Model of the asynchronous file-processing pipeline of Note Companion:   *)
(* the cron-triggered batch worker GET /api/process-pending-uploads, its   *)
(* content extractor processSingleFileRecord, and the upload record store. *)
(*                                                                         *)
(* Strings are sequences of atoms (an atom is an unbroken piece of text);  *)
(* "/" is always an atom of its own, so split/join/startsWith/includes     *)
(* are computed on the atoms the way the code computes them on characters. *)
(***************************************************************************)
EXTENDS Integers, Sequences, FiniteSets, TLC

(***************************************************************************)
(* Bounds of the model.                                                    *)
(***************************************************************************)
NumRecords == 2
MaxRuns == 2
MaxFaults == 2
MaxShuffle == 3
NumItems == 2
MaxGlitches == 1
MaxDrains == 3

\* the largest maxAttempts given to pollForResults
MaxAttempts == 3

\* the longest text a preview is made of
MaxText == 5

(***************************************************************************)
(* Program constants.                                                      *)
(***************************************************************************)
BatchLimit == 10
MagicDiagramTokens == 5000

(***************************************************************************)
(* JavaScript values.                                                      *)
(***************************************************************************)
\* null / undefined of a "string | null" value
Null == <<"NULL">>

\* the empty string
Empty == <<>>

\* JS truthiness of a string | null value
Truthy(s) == s # Null /\ s # Empty

\* `${s}` inside a template literal
Show(s) == IF s = Null THEN <<"null">> ELSE s

\* number of characters of an atom
AtomLen(a) ==
  CASE a = "hello" -> 5
    [] a = " " -> 1
    [] a = "Error processing image OCR" -> 26
    [] a = ": stop sign" -> 11
    [] OTHER -> 1

RECURSIVE length(_)
length(s) == IF s = Empty THEN 0 ELSE AtomLen(Head(s)) + length(Tail(s))

startsWith(s, p) == Len(s) >= Len(p) /\ SubSeq(s, 1, Len(p)) = p

\* s === a instead of s.includes(a)
includesExactly(s, a) == s = <<a>>

includes(s, a) == \E i \in 1..Len(s) : s[i] = a

Whitespace == {" "}

RECURSIVE trimStart(_)
trimStart(s) ==
  IF s # Empty /\ Head(s) \in Whitespace THEN trimStart(Tail(s)) ELSE s

RECURSIVE trimEnd(_)
trimEnd(s) ==
  IF s # Empty /\ s[Len(s)] \in Whitespace
  THEN trimEnd(SubSeq(s, 1, Len(s) - 1)) ELSE s

trim(s) == trimEnd(trimStart(s))

lowerAtom(a) ==
  CASE a = "IMAGE" -> "image"
    [] a = "PNG" -> "png"
    [] a = "TEXT" -> "text"
    [] a = "PLAIN" -> "plain"
    [] OTHER -> a

toLowerCase(s) == [i \in 1..Len(s) |-> lowerAtom(s[i])]

\* s.split(sep): the segments between the sep atoms (a 0-based array, kept 1-based)
RECURSIVE splitFrom(_, _, _, _)
splitFrom(s, sep, i, cur) ==
  IF i > Len(s) THEN <<cur>>
  ELSE IF s[i] = sep THEN <<cur>> \o splitFrom(s, sep, i + 1, Empty)
  ELSE splitFrom(s, sep, i + 1, Append(cur, s[i]))

split(s, sep) == splitFrom(s, sep, 1, Empty)

\* parts.join("/")
RECURSIVE join(_)
join(parts) ==
  IF Len(parts) = 0 THEN Empty
  ELSE IF Len(parts) = 1 THEN parts[1]
  ELSE parts[1] \o <<"/">> \o join(Tail(parts))

\* parts.findIndex(p => p === x), 0-based, -1 when absent
findIndex(parts, x) ==
  IF \E i \in 1..Len(parts) : parts[i] = x
  THEN (CHOOSE i \in 1..Len(parts) :
          parts[i] = x /\ \A j \in 1..(i - 1) : parts[j] # x) - 1
  ELSE -1

\* parts.slice(k), k 0-based
slice(parts, k) == SubSeq(parts, k + 1, Len(parts))

\* Math.ceil(n / 4)
ceilDiv4(n) == (n + 3) \div 4

(***************************************************************************)
(* Values thrown and caught.  A thrown value is an Error (isError) with a  *)
(* message, or a plain object that may carry a message property and a      *)
(* nested error.message (Null: the property is absent).                    *)
(***************************************************************************)
ErrorOf(msg) == [isError |-> TRUE, message |-> msg, nested |-> Null]

PlainThrown(msg, nested) == [isError |-> FALSE, message |-> msg, nested |-> nested]

Returned(v) == [threw |-> FALSE, value |-> v]

Threw(e) == [threw |-> TRUE, error |-> e]

\* String(id) of a numeric record id
idStr(id) == <<<<"1", "2", "3", "4", "5", "6", "7", "8", "9", "10", "11", "12">>[id]>>

\* buffer.toString('utf-8'): bytes 104, 105 are "h", "i"; an invalid byte
\* decodes to the replacement character
utf8Atom(b) ==
  CASE b = 104 -> "h"
    [] b = 105 -> "i"
    [] OTHER -> "\\uFFFD"

\* buffer.toString('latin1'): every byte is a character of its own
toStringLatin1(bytes) ==
  [i \in 1..Len(bytes) |-> IF bytes[i] = 255 THEN "\\u00FF" ELSE utf8Atom(bytes[i])]

toStringUtf8(bytes) == [i \in 1..Len(bytes) |-> utf8Atom(bytes[i])]

(***************************************************************************)
(* The outcomes of the external calls of one extraction (object store, AI  *)
(* provider) are the record env:                                           *)
(*   dl   "fail", or "ok" with the stored bytes in body                    *)
(*   ocr  generateObject: [ok, markdown, usage] or [ok = FALSE, error]     *)
(*   img  images.edit: "ok", "nob64", or "throw" with the value thrown     *)
(*   up   "ok" | "fail" of the upload of the generated image               *)
(***************************************************************************)
downloadFromR2(key, env) ==
  IF env.dl = "ok" THEN Returned(env.body)
  ELSE Threw(ErrorOf(<<"Failed to download file from R2: ">> \o key))

uploadToR2(key, env) ==
  IF env.up = "ok" THEN Returned(Empty)
  ELSE Threw(ErrorOf(<<"Failed to upload file to R2: ">> \o key))

\* an OCR helper whose catch block returns no text instead of the error text
processImageWithGPT4oneSwallow(imageUrl, env) ==
  IF env.ocr.ok
  THEN LET textContent == IF Truthy(env.ocr.markdown) THEN env.ocr.markdown ELSE Empty
           tokensUsed == IF env.ocr.usage # -1 THEN env.ocr.usage
                         ELSE ceilDiv4(length(textContent))
       IN  [textContent |-> textContent, tokensUsed |-> tokensUsed]
  ELSE [textContent |-> Empty, tokensUsed |-> 0]

\* usage?.totalTokens ?? Math.ceil(textContent.length / 4); usage -1: not reported
processImageWithGPT4one(imageUrl, env) ==
  IF env.ocr.ok
  THEN LET textContent == IF Truthy(env.ocr.markdown) THEN env.ocr.markdown ELSE Empty
           tokensUsed == IF env.ocr.usage # -1 THEN env.ocr.usage
                         ELSE ceilDiv4(length(textContent))
       IN  [textContent |-> textContent, tokensUsed |-> tokensUsed]
  ELSE [textContent |-> <<"Error processing image OCR", ": ">> \o env.ocr.error.message,
        tokensUsed |-> 0]

\* the message the catch block of processMagicDiagram reads off a thrown value
diagramErrorMessage(e) ==
  IF ~e.isError /\ e.message # Null THEN Show(e.message)
  ELSE IF e.isError THEN e.message
  ELSE IF Truthy(e.nested) THEN e.nested
  ELSE <<"Unknown error generating diagram image">>

\* path.basename(originalFileName, extension): originalName is <<base, ext>>
generatedR2Key(userId, originalFileName) ==
  <<"generated", "/", userId, "/", "{now}-{hex}-", originalFileName[1], ".png">>

\* what the try block of processMagicDiagram does: the value returned or thrown
diagramAttempt(r2Key, originalFileName, userId, env) ==
  LET dl == downloadFromR2(r2Key, env)
      up == uploadToR2(generatedR2Key(userId, originalFileName), env)
  IN  IF dl.threw THEN dl
      ELSE IF env.img.kind = "throw" THEN Threw(env.img.error)
      ELSE IF env.img.kind = "nob64"
        THEN Threw(ErrorOf(<<"Image generation failed, no b64_json returned in the response.">>))
      ELSE IF up.threw THEN up
      ELSE Returned([generatedImageUrl |->
                       <<"{R2_PUBLIC_URL}", "/">> \o generatedR2Key(userId, originalFileName),
                     tokensUsed |-> MagicDiagramTokens,
                     error |-> Null])

processMagicDiagram(r2Key, originalFileName, userId, env) ==
  LET a == diagramAttempt(r2Key, originalFileName, userId, env)
  IN  IF a.threw
      THEN [generatedImageUrl |-> Empty,
            tokensUsed |-> 0,
            error |-> <<"Error generating diagram: ">> \o diagramErrorMessage(a.error)]
      ELSE a.value

\* the object key of a record: r2Key, else the part of blobUrl from "uploads" on
\* (Null: not derivable).  blobUrl Null has no split method: a TypeError.
derivedR2Key(fileRecord) ==
  LET urlParts == split(fileRecord.blobUrl, "/")
      uploadSegmentIndex == findIndex(urlParts, <<"uploads">>)
  IN  IF uploadSegmentIndex # -1 /\ uploadSegmentIndex < Len(urlParts) - 1
      THEN join(slice(urlParts, uploadSegmentIndex))
      ELSE Null

errorResult(msg) ==
  [status |-> "error", textContent |-> Null, generatedImageUrl |-> Null,
   tokensUsed |-> 0, error |-> msg]

\* the local variables of processSingleFileRecord when its try block ends
locals(textContent, generatedImageUrl, tokensUsed, processingError) ==
  [textContent |-> textContent, generatedImageUrl |-> generatedImageUrl,
   tokensUsed |-> tokensUsed, processingError |-> processingError]

\* the try block of processSingleFileRecord: its locals, or the value thrown
strategy(fileRecord, r2Key, env) ==
  LET processType == IF Truthy(fileRecord.processType)
                     THEN fileRecord.processType ELSE <<"standard-ocr">>
      fileType == toLowerCase(fileRecord.fileType)
  IN  IF processType = <<"magic-diagram">> /\ startsWith(fileType, <<"image", "/">>)
      THEN LET result == processMagicDiagram(r2Key, fileRecord.originalName,
                                             fileRecord.userId, env)
           IN  IF Truthy(result.error)
               THEN Returned(locals(<<"[Error generating diagram: ">> \o result.error \o <<"]">>,
                                    Null, 0, result.error))
               ELSE Returned(locals(<<"[Generated Diagram Image](">>
                                      \o result.generatedImageUrl \o <<")">>,
                                    result.generatedImageUrl, result.tokensUsed, Null))
      ELSE IF processType = <<"standard-ocr">> /\ startsWith(fileType, <<"image", "/">>)
      THEN IF ~Truthy(fileRecord.blobUrl)
           THEN Threw(ErrorOf(<<"Missing blobUrl for OCR processing of file ID ">>
                                \o idStr(fileRecord.id)))
           ELSE LET result == processImageWithGPT4one(fileRecord.blobUrl, env)
                IN  IF startsWith(result.textContent, <<"Error processing image OCR">>)
                    THEN Returned(locals(Null, Null, result.tokensUsed, result.textContent))
                    ELSE IF ~Truthy(result.textContent) \/ trim(result.textContent) = Empty
                    THEN Returned(locals(<<"[OCR completed, but no text extracted]">>,
                                         Null, result.tokensUsed, Null))
                    ELSE Returned(locals(result.textContent, Null, result.tokensUsed, Null))
      ELSE IF fileType = <<"application", "/", "pdf">> \/ includes(fileType, "pdf")
      THEN Returned(locals(<<"[PDF Content - Processing Pending Implementation]">>,
                           Null, 0, <<"PDF processing not yet implemented.">>))
      ELSE IF fileType = <<"text", "/", "plain">> \/ fileType = <<"text", "/", "markdown">>
      THEN LET buffer == downloadFromR2(r2Key, env)
           IN  IF buffer.threw THEN buffer
               ELSE Returned(locals(toStringUtf8(buffer.value), Null, 0, Null))
      ELSE Returned(locals(<<"[Unsupported: ">> \o fileType \o <<"]">>, Null, 0,
                           <<"Unsupported file type/processType: ">> \o fileType
                             \o <<" / ">> \o processType))

\* processSingleFileRecord: Returned(result object), or Threw when the promise rejects
processSingleFileRecord(fileRecord, env) ==
  LET r2Key == IF Truthy(fileRecord.r2Key) THEN fileRecord.r2Key
               ELSE derivedR2Key(fileRecord)
      t == strategy(fileRecord, r2Key, env)
      l == IF t.threw
           THEN locals(Null, Null, 0,
                       IF t.error.isError THEN t.error.message
                       ELSE <<"Unknown processing error">>)
           ELSE t.value
  IN  IF ~Truthy(fileRecord.r2Key) /\ fileRecord.blobUrl = Null
      THEN Threw(ErrorOf(<<"Cannot read properties of null (reading 'split')">>))
      ELSE IF ~Truthy(fileRecord.r2Key) /\ r2Key = Null
      THEN Returned(errorResult(<<"Could not determine R2 key from blobUrl: ">>
                                  \o fileRecord.blobUrl))
      ELSE IF ~Truthy(r2Key)
      THEN Returned(errorResult(<<"Missing R2 key for file ID ">> \o idStr(fileRecord.id)))
      ELSE Returned(
             [status |-> IF Truthy(l.processingError) THEN "error" ELSE "completed",
              textContent |-> IF Truthy(l.processingError)
                              THEN <<"[Processing Error: ">> \o l.processingError \o <<"]">>
                              ELSE l.textContent,
              generatedImageUrl |-> l.generatedImageUrl,
              tokensUsed |-> l.tokensUsed,
              error |-> l.processingError])

\* one call of an external service: what was called, on what, with what outcome
Call(fn, arg, out) == [fn |-> fn, arg |-> arg, out |-> out]

\* the external calls of processMagicDiagram, in order
diagramCalls(r2Key, originalFileName, userId, env) ==
  LET dl == downloadFromR2(r2Key, env)
      generated == generatedR2Key(userId, originalFileName)
  IN  <<Call("downloadFromR2", r2Key, dl)>>
        \o (IF dl.threw THEN <<>>
            ELSE <<Call("images.edit", originalFileName, env.img)>>
                   \o (IF env.img.kind # "ok" THEN <<>>
                       ELSE <<Call("uploadToR2", generated, uploadToR2(generated, env))>>))

\* the external calls processSingleFileRecord makes for a record, in order
calls(fileRecord, env) ==
  LET r2Key == IF Truthy(fileRecord.r2Key) THEN fileRecord.r2Key
               ELSE derivedR2Key(fileRecord)
      processType == IF Truthy(fileRecord.processType)
                     THEN fileRecord.processType ELSE <<"standard-ocr">>
      fileType == toLowerCase(fileRecord.fileType)
  IN  IF ~Truthy(fileRecord.r2Key) /\ fileRecord.blobUrl = Null THEN <<>>
      ELSE IF ~Truthy(r2Key) THEN <<>>
      ELSE IF processType = <<"magic-diagram">> /\ startsWith(fileType, <<"image", "/">>)
      THEN diagramCalls(r2Key, fileRecord.originalName, fileRecord.userId, env)
      ELSE IF processType = <<"standard-ocr">> /\ startsWith(fileType, <<"image", "/">>)
      THEN IF ~Truthy(fileRecord.blobUrl) THEN <<>>
           ELSE <<Call("generateObject", fileRecord.blobUrl, env.ocr)>>
      ELSE IF fileType = <<"application", "/", "pdf">> \/ includes(fileType, "pdf")
      THEN <<>>
      ELSE IF fileType = <<"text", "/", "plain">> \/ fileType = <<"text", "/", "markdown">>
      THEN <<Call("downloadFromR2", r2Key, downloadFromR2(r2Key, env))>>
      ELSE <<>>

(***************************************************************************)
(* The upload record store and the worker invocations.                     *)
(***************************************************************************)
Records == 1..NumRecords

Workers == {"A", "B"}

Statuses == {"pending", "processing", "completed", "error"}

Terminal == {"completed", "error"}

\* a batch query that also selects errored records
ClaimableWithError == {"pending", "processing", "error"}

\* a batch query that selects pending records only
ClaimablePendingOnly == {"pending"}

\* a batch query that also selects completed records
ClaimableWithCompleted == {"pending", "processing", "completed"}

\* the statuses the batch query selects
Claimable == {"pending", "processing"}

userOf(id) == <<"u1", "u2", "u3", "u4", "u5", "u6", "u7", "u8", "u9", "u10", "u11", "u12">>[id]

\* the immutable part of an upload record, as the intake path stores it
FileOf(id, r2Key, blobUrl, fileType, processType) ==
  [id |-> id, userId |-> userOf(id), r2Key |-> r2Key, blobUrl |-> blobUrl,
   fileType |-> fileType, processType |-> processType,
   originalName |-> <<"sketch", ".png">>]

\* the row the intake path creates: status pending, no result yet
NewRow(file) ==
  [file |-> file, status |-> "pending", textContent |-> Null,
   generatedImageUrl |-> Null, tokensUsed |-> 0, error |-> Null, updatedAt |-> 0]

BlobUrls ==
  { Null, Empty,
    <<"https:", "/", "/", "cdn", "/", "uploads", "/", "a.png">>,
    <<"https:", "/", "/", "cdn", "/", "files", "/", "a.png">>,
    <<"https:", "/", "/", "cdn", "/", "uploads">> }

R2Keys == { Null, Empty, <<"uploads", "/", "a.png">> }

FileTypes ==
  { <<"image", "/", "png">>, <<"IMAGE", "/", "PNG">>,
    <<"application", "/", "pdf">>, <<"application", "/", "x-", "pdf">>,
    <<"text", "/", "plain">>, <<"text", "/", "markdown">>,
    <<"application", "/", "zip">> }

ProcessTypes == { Null, <<"standard-ocr">>, <<"magic-diagram">>, <<"summary">> }

\* outcomes of generateObject
OcrOutcomes ==
  { [ok |-> FALSE, markdown |-> Empty, usage |-> -1,
     error |-> ErrorOf(<<"provider unavailable">>)] }
  \cup
  { [ok |-> TRUE, markdown |-> m, usage |-> u, error |-> ErrorOf(Empty)] :
      m \in { Empty, <<"hello">>, <<" ">>,
              <<"Error processing image OCR", ": stop sign">> },
      u \in { -1, 7 } }

\* outcomes of images.edit
ImgOutcomes ==
  { [kind |-> "ok", error |-> ErrorOf(Empty)],
    [kind |-> "nob64", error |-> ErrorOf(Empty)],
    [kind |-> "throw", error |-> ErrorOf(<<"image model timeout">>)],
    [kind |-> "throw", error |-> PlainThrown(Null, <<"quota exceeded">>)] }

Envs ==
  { [dl |-> d.dl, body |-> d.body, ocr |-> o, img |-> i, up |-> u] :
      d \in { [dl |-> "fail", body |-> Empty],
              [dl |-> "ok", body |-> Empty],
              [dl |-> "ok", body |-> <<104, 105>>],
              [dl |-> "ok", body |-> <<255>>] },
      o \in OcrOutcomes, i \in ImgOutcomes, u \in {"ok", "fail"} }

\* the records the worker runs of the model meet: images for standard OCR with
\* key and URL; the first record may be one that has neither
BatchFiles(id) ==
  { FileOf(id, <<"uploads", "/", "a.png">>,
           <<"https:", "/", "/", "cdn", "/", "uploads", "/", "a.png">>,
           <<"image", "/", "png">>, <<"standard-ocr">>) }
  \cup
  { FileOf(id, Null, Null, <<"image", "/", "png">>, <<"standard-ocr">>) : i \in {id} \cap {1} }

\* the outcomes of the external calls the worker runs of the model meet: the
\* provider fails, returns text with 7 tokens used, or returns no text
BatchEnvs ==
  { e \in Envs : /\ e.dl = "ok" /\ e.body = <<104, 105>>
                 /\ e.img.kind = "ok" /\ e.up = "ok"
                 /\ (e.ocr.ok => \/ e.ocr.markdown = <<"hello">> /\ e.ocr.usage = 7
                                 \/ e.ocr.markdown = Empty /\ e.ocr.usage = -1) }

\* records of the other kinds: a sketch for a diagram, text files (one without a
\* stored key), a PDF, archives (one whose URL gives no key), an image with an
\* unknown process type, and the photo of a sign whose text reads like an error
KindFiles(id) ==
  LET key == <<"uploads", "/", "a.png">>
      url == <<"https:", "/", "/", "cdn", "/", "uploads", "/", "a.png">>
  IN  { FileOf(id, key, url, <<"image", "/", "png">>, <<"magic-diagram">>),
        FileOf(id, key, url, <<"text", "/", "plain">>, Null),
        FileOf(id, Null, url, <<"text", "/", "markdown">>, <<"magic-diagram">>),
        FileOf(id, Null, <<"https:", "/", "/", "cdn", "/", "files", "/", "a.png">>,
               <<"text", "/", "plain">>, Null),
        FileOf(id, key, url, <<"application", "/", "pdf">>, <<"standard-ocr">>),
        FileOf(id, key, url, <<"application", "/", "zip">>, <<"standard-ocr">>),
        FileOf(id, Null, <<"https:", "/", "/", "cdn", "/", "files", "/", "a.png">>,
               <<"application", "/", "zip">>, <<"standard-ocr">>),
        FileOf(id, key, url, <<"image", "/", "png">>, <<"summary">>),
        FileOf(id, Null, <<"https:", "/", "/", "cdn", "/", "uploads", "/", "sign.png">>,
               <<"image", "/", "png">>, <<"standard-ocr">>) }

\* a table of one record more than the batch query returns: the first an image
\* for standard OCR, the others PDFs
LimitRecords == 1..(BatchLimit + 1)

LimitFiles(id) ==
  IF id = 1 THEN BatchFiles(id)
  ELSE { FileOf(id, <<"uploads", "/", "a.png">>,
                <<"https:", "/", "/", "cdn", "/", "uploads", "/", "a.png">>,
                <<"application", "/", "pdf">>, <<"standard-ocr">>) }

\* the outcomes of the external calls an extraction of this record may meet
\* (the PDFs of the large table make no external call)
EnvsFor(file) ==
  IF file \in BatchFiles(file.id) \cup LimitFiles(file.id) THEN BatchEnvs ELSE Envs

VARIABLES
  CRON_SECRET,     \* process.env.CRON_SECRET (Null: not set)
  store,           \* the uploaded_files table: id -> row
  request,         \* the Authorization header of the request each invocation serves
  pc,              \* where each invocation of GET stands
  pendingFiles,    \* the batch the invocation fetched (rows as fetched)
  idx,             \* position of the for loop in pendingFiles
  result,          \* what processSingleFileRecord returned for the current record
  caught,          \* the message of the exception the loop's catch block holds
  processedCount,
  errorCount,
  response,        \* the last response each invocation slot sent
  runs,            \* invocations started so far
  faults,          \* store, metering and fetch failures so far
  trace,           \* history: what the current invocation did, in order
  extraction,      \* a call of processSingleFileRecord on its own
  tmpdir,          \* os.tmpdir(): the paths of the files in it
  diagram,         \* a call of processMagicDiagram, step by step
  disk,            \* the device: sync_queue.json and the pending_uploads directories
  saver,           \* a call of saveFileLocally or of addToSyncQueue
  drain,           \* the call of processSyncQueue of each background driver
  driver,          \* the closures of startBackgroundSync: isProcessing and timers
  poll,            \* a call of pollForResults
  glitches,        \* device file operations that failed so far
  journal          \* history: what the client did, in order

wvars == <<request, pc, pendingFiles, idx, result, caught, processedCount, errorCount, response, trace>>

\* the worker host's temporary directory and the run of processMagicDiagram on it
dvars == <<tmpdir, diagram>>

\* the state of the mobile client
cvars == <<disk, saver, drain, driver, poll, glitches, journal>>

\* what the worker model leaves alone
others == <<dvars, cvars>>

\* the state of the worker model
svars == <<CRON_SECRET, store, request, pc, pendingFiles, idx, result, caught,
           processedCount, errorCount, response, runs, faults, trace, extraction>>

vars == <<svars, others>>

NoResult == errorResult(<<"no result">>)

NoExtraction ==
  [fileRecord |-> FileOf(1, Null, Null, Empty, Null), state |-> "off",
   env |-> Null, value |-> NoResult]

InitStore ==
  /\ CRON_SECRET = <<"s3cret">>
  /\ store \in [Records -> UNION { {NewRow(f) : f \in BatchFiles(id)} : id \in Records }]
  /\ \A id \in Records : store[id].file.id = id

\* no call of processMagicDiagram is under way
NoDiagram ==
  [pc |-> "off", tempImagePath |-> Null, env |-> Null, value |-> Null,
   calls |-> 0, kept |-> {}]

Drivers == {"D1", "D2"}

Items == 1..NumItems

\* no metadata.json
NoMetadata == [status |-> Null, error |-> Null, lastAttempt |-> 0]

\* an item directory that does not exist
NoDir == [exists |-> FALSE, files |-> {}, metadata |-> NoMetadata]

\* a device on which the app never ran: no sync_queue.json, no item directory
NewDisk == [queueExists |-> FALSE, queue |-> <<>>, items |-> [i \in Items |-> NoDir]]

NoSave ==
  [pc |-> "off", file |-> Null, localId |-> 0, queue |-> <<>>, direct |-> FALSE,
   maxLength |-> 0, preview |-> Null]

\* handleFileProcess was not called
NoOutcome == [threw |-> FALSE, status |-> Null, error |-> Null]

\* no call of processSyncQueue; read, outcome, wrote and failed are history: the
\* queue as the call read it, what handleFileProcess gave, what the call wrote
\* last, and whether a device operation of the call failed
NoDrain ==
  [pc |-> "off", queue |-> <<>>, localId |-> 0, metadata |-> NoMetadata,
   todo |-> <<>>, inTry |-> FALSE, ret |-> FALSE,
   read |-> <<>>, outcome |-> NoOutcome,
   wrote |-> [metadata |-> NoMetadata, queue |-> <<>>, queueWritten |-> FALSE],
   failed |-> FALSE]

NoDriver == [started |-> FALSE, isProcessing |-> FALSE, timers |-> 0, calls |-> 0]

\* an UploadResult that is not there, and one with the fields used here
NoUploadResult == [status |-> Null, error |-> Null, text |-> Null, fileId |-> Null]

UploadResult(status, error, text, id) ==
  [status |-> status, error |-> error, text |-> text, fileId |-> id]

NoFileId == [isNumber |-> FALSE, digits |-> Null]

NoPoll ==
  [pc |-> "off", fileId |-> NoFileId, isTextFile |-> FALSE, maxAttempts |-> 0,
   attempts |-> 0, history |-> <<>>, ret |-> NoUploadResult, calls |-> 0]

\* the client as the app starts on a device
InitClient ==
  /\ disk = NewDisk
  /\ saver = NoSave
  /\ drain = [d \in Drivers |-> NoDrain]
  /\ driver = [d \in Drivers |-> NoDriver]
  /\ poll = NoPoll
  /\ glitches = 0
  /\ journal = <<>>

\* nothing but the worker runs
NothingElseRuns ==
  /\ tmpdir = {}
  /\ diagram = NoDiagram
  /\ InitClient

InitWorkers ==
  /\ NothingElseRuns
  /\ request = [w \in Workers |-> Null]
  /\ pc = [w \in Workers |-> "idle"]
  /\ pendingFiles = [w \in Workers |-> <<>>]
  /\ idx = [w \in Workers |-> 0]
  /\ result = [w \in Workers |-> NoResult]
  /\ caught = [w \in Workers |-> Empty]
  /\ processedCount = [w \in Workers |-> 0]
  /\ errorCount = [w \in Workers |-> 0]
  /\ response = [w \in Workers |-> [kind |-> "none"]]
  /\ trace = [w \in Workers |-> <<>>]

\* the table as the intake path filled it, before any trigger
Init ==
  /\ InitStore
  /\ InitWorkers
  /\ runs = 0
  /\ faults = 0
  /\ extraction = NoExtraction

(***************************************************************************)
(* Store operations.                                                       *)
(***************************************************************************)
\* db.update(uploadedFiles).set(fields): the named columns change, the rest stay
set(row, fields) ==
  [c \in DOMAIN row |-> IF c \in DOMAIN fields THEN fields[c] ELSE row[c]]

\* updatedAt: new Date(), a later time than the one the row holds
newDate(row) == row.updatedAt + 1

\* an update without its where clause: every row is written
updateEveryRow(id, fields) ==
  store' = [r \in DOMAIN store |-> set(store[r], fields @@ [updatedAt |-> newDate(store[r])])]

\* db.update(...).set(fields).where(eq(uploadedFiles.id, id))
update(id, fields) ==
  store' = [store EXCEPT ![id] = set(@, fields @@ [updatedAt |-> newDate(@)])]

\* the ids the where clause of the batch query matches
matching(rows) == { id \in DOMAIN rows : rows[id].status \in Claimable }

\* a query without its limit
MinUnlimited(a, b) == b

Min(a, b) == IF a < b THEN a ELSE b

\* the ids in ascending order
RECURSIVE sorted(_)
sorted(ids) ==
  IF ids = {} THEN <<>>
  ELSE LET least == CHOOSE x \in ids : \A y \in ids : x <= y
       IN  <<least>> \o sorted(ids \ {least})

\* the orders in which the query may return these rows: it has no ORDER BY, so
\* any order; of more than MaxShuffle rows the model follows the id order only
orders(ids) ==
  IF Cardinality(ids) <= MaxShuffle
  THEN { p \in [1..Cardinality(ids) -> ids] :
           \A i, j \in 1..Cardinality(ids) : i # j => p[i] # p[j] }
  ELSE { sorted(ids) }

\* the batch query: any BatchLimit of the matching rows (all of them when there
\* are fewer), in any of these orders
batches(rows) ==
  LET n == Min(BatchLimit, Cardinality(matching(rows)))
  IN  UNION { { [i \in 1..n |-> rows[q[i]]] : q \in orders(chosen) } :
                chosen \in { c \in SUBSET matching(rows) : Cardinality(c) = n } }

(***************************************************************************)
(* GET /api/process-pending-uploads.                                       *)
(***************************************************************************)
Headers ==
  { Null, <<"Bearer", " ", "s3cret">>, <<"Bearer", " ", "guess">>, <<"s3cret">> }

\* request.headers.get("authorization")?.split(" ")[1]
cronSecretOf(header) ==
  IF header = Null THEN Null
  ELSE IF Len(split(header, " ")) >= 2 THEN split(header, " ")[2] ELSE Null

authorized(header) == ~(cronSecretOf(header) # CRON_SECRET)

fileRecord(w) == pendingFiles[w][idx[w]]

fileId(w) == fileRecord(w).file.id

Event(op, id, ok, val) == [op |-> op, id |-> id, ok |-> ok, val |-> val]

log(w, ev) == trace' = [trace EXCEPT ![w] = Append(@, ev)]

log2(w, ev1, ev2) == trace' = [trace EXCEPT ![w] = Append(Append(@, ev1), ev2)]

\* a summary that reports the fetched records as succeeded, whatever happened
summaryAllSucceeded(n, succeeded, errors) ==
  [kind |-> "summary", code |-> 200, attempted |-> n,
   succeeded |-> n, errors |-> errors]

summary(n, succeeded, errors) ==
  [kind |-> "summary", code |-> 200, attempted |-> n,
   succeeded |-> succeeded, errors |-> errors]

\* the invocation's local state is gone once it has responded or was killed
forget(w) ==
  /\ request' = [request EXCEPT ![w] = Null]
  /\ pc' = [pc EXCEPT ![w] = "idle"]
  /\ pendingFiles' = [pendingFiles EXCEPT ![w] = <<>>]
  /\ idx' = [idx EXCEPT ![w] = 0]
  /\ result' = [result EXCEPT ![w] = NoResult]
  /\ caught' = [caught EXCEPT ![w] = Empty]
  /\ processedCount' = [processedCount EXCEPT ![w] = 0]
  /\ errorCount' = [errorCount EXCEPT ![w] = 0]
  /\ response' = [response EXCEPT ![w] = [kind |-> "none"]]
  /\ trace' = [trace EXCEPT ![w] = <<>>]

\* a loop that stops at the first record whose processing threw
nextRecordUnlessCaught(w, succeeded, errors) ==
  /\ processedCount' = [processedCount EXCEPT ![w] = succeeded]
  /\ errorCount' = [errorCount EXCEPT ![w] = errors]
  /\ result' = [result EXCEPT ![w] = NoResult]
  /\ caught' = [caught EXCEPT ![w] = Empty]
  /\ IF idx[w] < Len(pendingFiles[w]) /\ pc[w] # "fallback"
     THEN /\ idx' = [idx EXCEPT ![w] = @ + 1]
          /\ pc' = [pc EXCEPT ![w] = "claim"]
          /\ UNCHANGED response
     ELSE /\ UNCHANGED idx
          /\ pc' = [pc EXCEPT ![w] = "respond"]
          /\ response' = [response EXCEPT ![w] =
                            summary(Len(pendingFiles[w]), succeeded, errors)]

\* end of one iteration of the for loop: the next record, or the summary
nextRecord(w, succeeded, errors) ==
  /\ processedCount' = [processedCount EXCEPT ![w] = succeeded]
  /\ errorCount' = [errorCount EXCEPT ![w] = errors]
  /\ result' = [result EXCEPT ![w] = NoResult]
  /\ caught' = [caught EXCEPT ![w] = Empty]
  /\ IF idx[w] < Len(pendingFiles[w])
     THEN /\ idx' = [idx EXCEPT ![w] = @ + 1]
          /\ pc' = [pc EXCEPT ![w] = "claim"]
          /\ UNCHANGED response
     ELSE /\ UNCHANGED idx
          /\ pc' = [pc EXCEPT ![w] = "respond"]
          /\ response' = [response EXCEPT ![w] =
                            summary(Len(pendingFiles[w]), succeeded, errors)]

\* a loop without its own catch block: the exception reaches the outer catch
catchOutsideLoop(w, message) ==
  /\ pc' = [pc EXCEPT ![w] = "respond"]
  /\ response' = [response EXCEPT ![w] = [kind |-> "failed", code |-> 500]]
  /\ UNCHANGED <<pendingFiles, idx, result, caught, processedCount, errorCount>>

\* the catch block of the loop: count the record as failed, go to the fallback write
catchInLoop(w, message) ==
  /\ errorCount' = [errorCount EXCEPT ![w] = @ + 1]
  /\ caught' = [caught EXCEPT ![w] = message]
  /\ pc' = [pc EXCEPT ![w] = "fallback"]
  /\ UNCHANGED <<pendingFiles, idx, result, processedCount, response>>

\* a request without the cron secret
Unauthorized(w) ==
  /\ pc[w] = "idle"
  /\ \E h \in Headers : ~authorized(h) /\ request' = [request EXCEPT ![w] = h]
  /\ pc' = [pc EXCEPT ![w] = "respond"]
  /\ response' = [response EXCEPT ![w] = [kind |-> "unauthorized", code |-> 401]]
  /\ UNCHANGED <<others, CRON_SECRET, store, pendingFiles, idx, result, caught,
                 processedCount, errorCount, runs, faults, trace, extraction>>

\* the batch query rejects: the outer catch answers 500
FetchThrows(w) ==
  /\ pc[w] = "idle" /\ runs < MaxRuns /\ faults < MaxFaults
  /\ \E h \in Headers : authorized(h) /\ request' = [request EXCEPT ![w] = h]
  /\ runs' = runs + 1 /\ faults' = faults + 1
  /\ pc' = [pc EXCEPT ![w] = "respond"]
  /\ response' = [response EXCEPT ![w] = [kind |-> "failed", code |-> 500]]
  /\ log(w, Event("fetch", 0, FALSE, 0))
  /\ UNCHANGED <<others, CRON_SECRET, store, pendingFiles, idx, result, caught,
                 processedCount, errorCount, extraction>>

\* a worker without the early return: an empty batch goes through the loop to the summary
FetchNoneNoReturn(w) ==
  /\ pc[w] = "idle" /\ runs < MaxRuns
  /\ \E h \in Headers : authorized(h) /\ request' = [request EXCEPT ![w] = h]
  /\ matching(store) = {}
  /\ runs' = runs + 1
  /\ pc' = [pc EXCEPT ![w] = "respond"]
  /\ response' = [response EXCEPT ![w] = summary(0, processedCount[w], errorCount[w])]
  /\ log(w, Event("fetch", 0, TRUE, 0))
  /\ UNCHANGED <<others, CRON_SECRET, store, pendingFiles, idx, result, caught,
                 processedCount, errorCount, faults, extraction>>

\* the batch query finds nothing: "No pending files"
FetchNone(w) ==
  /\ pc[w] = "idle" /\ runs < MaxRuns
  /\ \E h \in Headers : authorized(h) /\ request' = [request EXCEPT ![w] = h]
  /\ matching(store) = {}
  /\ runs' = runs + 1
  /\ pc' = [pc EXCEPT ![w] = "respond"]
  /\ response' = [response EXCEPT ![w] = [kind |-> "idle", code |-> 200]]
  /\ log(w, Event("fetch", 0, TRUE, 0))
  /\ UNCHANGED <<others, CRON_SECRET, store, pendingFiles, idx, result, caught,
                 processedCount, errorCount, faults, extraction>>

\* the batch query returns the batch; the loop starts at its first record
FetchBatch(w) ==
  /\ pc[w] = "idle" /\ runs < MaxRuns
  /\ \E h \in Headers : authorized(h) /\ request' = [request EXCEPT ![w] = h]
  /\ matching(store) # {}
  /\ \E b \in batches(store) :
       /\ pendingFiles' = [pendingFiles EXCEPT ![w] = b]
       /\ log(w, Event("fetch", 0, TRUE, Len(b)))
  /\ runs' = runs + 1
  /\ idx' = [idx EXCEPT ![w] = 1]
  /\ pc' = [pc EXCEPT ![w] = "claim"]
  /\ UNCHANGED <<others, CRON_SECRET, store, result, caught, processedCount,
                 errorCount, response, faults, extraction>>

\* the record was fetched as processing: no claim write
ClaimResumed(w) ==
  /\ pc[w] = "claim"
  /\ ~(fileRecord(w).status # "processing")
  /\ pc' = [pc EXCEPT ![w] = "extract"]
  /\ log(w, Event("resume", fileId(w), TRUE, 0))
  /\ UNCHANGED <<others, CRON_SECRET, request, store, pendingFiles, idx, result, caught,
                 processedCount, errorCount, response, runs, faults, extraction>>

\* a claim write that also clears the content columns
claimFieldsClearContent ==
  [status |-> "processing", error |-> Null, textContent |-> Empty, tokensUsed |-> 0]

\* a claim write that leaves the status column out
claimFieldsNoStatus == [error |-> Null]

\* the columns the claim write sets
claimFields == [status |-> "processing", error |-> Null]

\* the claim write: status processing, error null, updatedAt
ClaimWrite(w) ==
  /\ pc[w] = "claim"
  /\ fileRecord(w).status # "processing"
  /\ update(fileId(w), claimFields)
  /\ pc' = [pc EXCEPT ![w] = "extract"]
  /\ log(w, Event("claim", fileId(w), TRUE, 0))
  /\ UNCHANGED <<others, CRON_SECRET, request, pendingFiles, idx, result, caught,
                 processedCount, errorCount, response, runs, faults, extraction>>

\* the claim write rejects
ClaimThrows(w) ==
  /\ pc[w] = "claim" /\ faults < MaxFaults
  /\ fileRecord(w).status # "processing"
  /\ faults' = faults + 1
  /\ catchInLoop(w, <<"store write failed">>)
  /\ log(w, Event("claim", fileId(w), FALSE, 0))
  /\ UNCHANGED <<others, CRON_SECRET, request, store, runs, extraction>>

\* processSingleFileRecord resolves with a result object
Extract(w) ==
  /\ pc[w] = "extract"
  /\ \E env \in EnvsFor(fileRecord(w).file) :
       LET r == processSingleFileRecord(fileRecord(w).file, env)
       IN  /\ ~r.threw
           /\ result' = [result EXCEPT ![w] = r.value]
           /\ log2(w, Event("calls", fileId(w), TRUE, calls(fileRecord(w).file, env)),
                     Event("extract", fileId(w), TRUE, r.value))
  /\ pc' = [pc EXCEPT ![w] = "commit"]
  /\ UNCHANGED <<others, CRON_SECRET, request, store, pendingFiles, idx, caught,
                 processedCount, errorCount, response, runs, faults, extraction>>

\* processSingleFileRecord rejects
ExtractThrows(w) ==
  /\ pc[w] = "extract"
  /\ \E env \in EnvsFor(fileRecord(w).file) :
       LET r == processSingleFileRecord(fileRecord(w).file, env)
       IN  /\ r.threw
           /\ catchInLoop(w, r.error.message)
           /\ log2(w, Event("calls", fileId(w), TRUE, calls(fileRecord(w).file, env)),
                     Event("extract", fileId(w), FALSE, 0))
  /\ UNCHANGED <<others, CRON_SECRET, request, store, runs, faults, extraction>>

\* a commit write that leaves the status column out
commitFieldsNoStatus(res) ==
  [textContent |-> res.textContent, generatedImageUrl |-> res.generatedImageUrl,
   tokensUsed |-> res.tokensUsed, error |-> res.error]

\* a commit write that leaves the error column out
commitFieldsNoError(res) ==
  [status |-> res.status, textContent |-> res.textContent,
   generatedImageUrl |-> res.generatedImageUrl, tokensUsed |-> res.tokensUsed]

\* the columns the commit write sets
commitFields(res) ==
  [status |-> res.status, textContent |-> res.textContent,
   generatedImageUrl |-> res.generatedImageUrl, tokensUsed |-> res.tokensUsed,
   error |-> res.error]

\* metering every completed record, whatever its token count
meteredWhenCompleted(res) == res.status = "completed"

\* does the worker call incrementAndLogTokenUsage for this result
metered(res) == res.status = "completed" /\ res.tokensUsed > 0

\* the commit write, then the counting of the record
CommitWrite(w) ==
  /\ pc[w] = "commit"
  /\ update(fileId(w), commitFields(result[w]))
  /\ log(w, Event("commit", fileId(w), TRUE, 0))
  /\ IF metered(result[w])
     THEN /\ processedCount' = [processedCount EXCEPT ![w] = @ + 1]
          /\ pc' = [pc EXCEPT ![w] = "meter"]
          /\ UNCHANGED <<pendingFiles, idx, result, caught, errorCount, response>>
     ELSE /\ IF result[w].status = "error"
             THEN nextRecord(w, processedCount[w], errorCount[w] + 1)
             ELSE nextRecord(w, processedCount[w] + 1, errorCount[w])
          /\ UNCHANGED pendingFiles
  /\ UNCHANGED <<others, CRON_SECRET, request, runs, faults, extraction>>

\* the commit write rejects
CommitThrows(w) ==
  /\ pc[w] = "commit" /\ faults < MaxFaults
  /\ faults' = faults + 1
  /\ catchInLoop(w, <<"store write failed">>)
  /\ log(w, Event("commit", fileId(w), FALSE, 0))
  /\ UNCHANGED <<others, CRON_SECRET, request, store, runs, extraction>>

\* the arguments of incrementAndLogTokenUsage(userId, result.tokensUsed)
meterCall(w) == [userId |-> fileRecord(w).file.userId, tokens |-> result[w].tokensUsed]

\* incrementAndLogTokenUsage resolves
Meter(w) ==
  /\ pc[w] = "meter"
  /\ log(w, Event("meter", fileId(w), TRUE, meterCall(w)))
  /\ nextRecord(w, processedCount[w], errorCount[w])
  /\ UNCHANGED <<others, CRON_SECRET, request, store, pendingFiles, runs, faults, extraction>>

\* a metering call without its own try/catch: the rejection reaches the loop's catch
MeterThrowsUncaught(w) ==
  /\ pc[w] = "meter" /\ faults < MaxFaults
  /\ faults' = faults + 1
  /\ log(w, Event("meter", fileId(w), FALSE, meterCall(w)))
  /\ catchInLoop(w, <<"metering failed">>)
  /\ UNCHANGED <<others, CRON_SECRET, request, store, runs, extraction>>

\* incrementAndLogTokenUsage rejects: logged, nothing else
MeterThrows(w) ==
  /\ pc[w] = "meter" /\ faults < MaxFaults
  /\ faults' = faults + 1
  /\ log(w, Event("meter", fileId(w), FALSE, meterCall(w)))
  /\ nextRecord(w, processedCount[w], errorCount[w])
  /\ UNCHANGED <<others, CRON_SECRET, request, store, pendingFiles, runs, extraction>>

\* a fallback write that leaves the error column out
fallbackFieldsNoError(message) == [status |-> "error"]

\* the columns the fallback write sets
fallbackFields(message) ==
  [status |-> "error", error |-> <<"Processing Loop Error: ">> \o message]

\* the fallback write in the catch block of the loop
FallbackWrite(w) ==
  /\ pc[w] = "fallback"
  /\ update(fileId(w), fallbackFields(caught[w]))
  /\ log(w, Event("fallback", fileId(w), TRUE, 0))
  /\ nextRecord(w, processedCount[w], errorCount[w])
  /\ UNCHANGED <<others, CRON_SECRET, request, pendingFiles, runs, faults, extraction>>

\* the fallback write rejects too: logged, the loop goes on
FallbackThrows(w) ==
  /\ pc[w] = "fallback" /\ faults < MaxFaults
  /\ faults' = faults + 1
  /\ log(w, Event("fallback", fileId(w), FALSE, 0))
  /\ nextRecord(w, processedCount[w], errorCount[w])
  /\ UNCHANGED <<others, CRON_SECRET, request, store, pendingFiles, runs, extraction>>

\* the response leaves; the invocation is over
Respond(w) ==
  /\ pc[w] = "respond"
  /\ forget(w)
  /\ UNCHANGED <<others, CRON_SECRET, store, runs, faults, extraction>>

\* the platform kills an invocation that exceeds maxDuration, wherever it stands
Killed(w) ==
  /\ pc[w] \in {"claim", "extract", "commit", "meter", "fallback"}
  /\ forget(w)
  /\ UNCHANGED <<others, CRON_SECRET, store, runs, faults, extraction>>

\* the steps of an invocation that runs
Steps(w) ==
  \/ Unauthorized(w)
  \/ FetchThrows(w)
  \/ FetchNone(w)
  \/ FetchBatch(w)
  \/ ClaimResumed(w)
  \/ ClaimWrite(w)
  \/ ClaimThrows(w)
  \/ Extract(w)
  \/ ExtractThrows(w)
  \/ CommitWrite(w)
  \/ CommitThrows(w)
  \/ Meter(w)
  \/ MeterThrows(w)
  \/ FallbackWrite(w)
  \/ FallbackThrows(w)
  \/ Respond(w)

GET(w) == Steps(w) \/ Killed(w)

\* the deployment the pipeline expects: one trigger, one invocation at a time
Next == GET("A")

Spec == Init /\ [][Next]_vars

\* two triggers may overlap when the scheduler retries
NextOverlap == \E w \in Workers : GET(w)

\* the table untouched after earlier triggers whose batch query failed: two
\* invocations and one store failure are left
InitOverlap ==
  /\ InitStore
  /\ InitWorkers
  /\ runs = MaxRuns - 2
  /\ faults = MaxFaults - 1
  /\ extraction = NoExtraction

SpecOverlap == InitOverlap /\ [][NextOverlap]_vars

\* the platform kills an invocation; it does so finitely often
KilledOnce(w) ==
  /\ faults < MaxFaults
  /\ faults' = faults + 1
  /\ pc[w] \in {"claim", "extract", "commit", "meter", "fallback"}
  /\ forget(w)
  /\ UNCHANGED <<others, CRON_SECRET, store, runs, extraction>>

\* the steps an invocation takes when nothing fails
Progress(w) ==
  \/ ClaimResumed(w)
  \/ ClaimWrite(w)
  \/ Extract(w)
  \/ ExtractThrows(w)
  \/ CommitWrite(w)
  \/ Meter(w)
  \/ FallbackWrite(w)
  \/ Respond(w)

NextLive == Steps("A") \/ KilledOnce("A")

\* the scheduler keeps triggering the worker with the cron secret, and an
\* invocation that is not killed runs on
Fairness == SF_vars(FetchBatch("A")) /\ WF_vars(Progress("A"))

\* one invocation at a time, triggered again and again; of the failures (store,
\* metering, kill) one is left, of the invocations two
SpecLive == InitOverlap /\ [][NextLive]_vars /\ Fairness

\* the deployment with or without the CRON_SECRET environment variable
InitAnySecret ==
  /\ CRON_SECRET \in {<<"s3cret">>, Null}
  /\ store \in [Records -> UNION { {NewRow(f) : f \in BatchFiles(id)} : id \in Records }]
  /\ \A id \in Records : store[id].file.id = id
  /\ InitWorkers
  /\ runs = 0
  /\ faults = 0
  /\ extraction = NoExtraction

SpecAnySecret == InitAnySecret /\ [][Next]_vars

\* the table when the first record is of any kind, the others images for OCR;
\* one store failure is left
InitKinds ==
  /\ CRON_SECRET = <<"s3cret">>
  /\ store \in [Records -> UNION { {NewRow(f) : f \in KindFiles(id) \cup BatchFiles(id)} :
                                     id \in Records }]
  /\ \A id \in Records : store[id].file.id = id
  /\ \A id \in Records \ {1} : store[id].file \in BatchFiles(id)
  /\ InitWorkers
  /\ runs = 0
  /\ faults = MaxFaults - 1
  /\ extraction = NoExtraction

SpecKinds == InitKinds /\ [][Next]_vars

\* the row after the claim write of an invocation that was killed before its commit
ClaimedRow(file) == set(NewRow(file), claimFields @@ [updatedAt |-> 1])

\* the row after a claim write that failed and the fallback write that followed
FailedRow(file) ==
  set(NewRow(file), fallbackFields(<<"store write failed">>) @@ [updatedAt |-> 1])

\* the table before any trigger, or with its first record claimed by a killed
\* invocation, or with every record failed by earlier invocations; one
\* invocation and one failure are left
InitLimit ==
  /\ CRON_SECRET = <<"s3cret">>
  /\ \E first \in LimitFiles(1) :
       \/ store = [id \in LimitRecords |->
                     NewRow(IF id = 1 THEN first ELSE CHOOSE f \in LimitFiles(id) : TRUE)]
       \/ store = [id \in LimitRecords |->
                     IF id = 1 THEN ClaimedRow(first)
                     ELSE NewRow(CHOOSE f \in LimitFiles(id) : TRUE)]
       \/ store = [id \in LimitRecords |->
                     FailedRow(IF id = 1 THEN first ELSE CHOOSE f \in LimitFiles(id) : TRUE)]
  /\ InitWorkers
  /\ runs = MaxRuns - 1
  /\ faults = MaxFaults - 1
  /\ extraction = NoExtraction

SpecLimit == InitLimit /\ [][Next]_vars

(***************************************************************************)
(* processSingleFileRecord on its own, over every record and every outcome *)
(* of the external calls.                                                  *)
(***************************************************************************)
FileRecords ==
  { FileOf(1, k, b, t, p) :
      k \in R2Keys, b \in BlobUrls, t \in FileTypes, p \in ProcessTypes }

InitExtraction ==
  /\ CRON_SECRET = <<"s3cret">>
  /\ store = [id \in Records |-> NewRow(FileOf(id, Null, Empty, Empty, Null))]
  /\ InitWorkers
  /\ runs = 0
  /\ faults = 0
  /\ extraction \in { [fileRecord |-> f, state |-> "called", env |-> Null,
                        value |-> NoResult] : f \in FileRecords }

\* the promise resolves with a result object
ExtractionReturns ==
  /\ extraction.state = "called"
  /\ \E env \in Envs :
       LET r == processSingleFileRecord(extraction.fileRecord, env)
       IN  /\ ~r.threw
           /\ extraction' = [extraction EXCEPT !.state = "returned", !.env = env,
                                               !.value = r.value]
  /\ UNCHANGED <<others, CRON_SECRET, store, wvars, runs, faults>>

\* the promise rejects
ExtractionThrows ==
  /\ extraction.state = "called"
  /\ \E env \in Envs :
       LET r == processSingleFileRecord(extraction.fileRecord, env)
       IN  /\ r.threw
           /\ extraction' = [extraction EXCEPT !.state = "threw", !.env = env]
  /\ UNCHANGED <<others, CRON_SECRET, store, wvars, runs, faults>>

NextExtraction == ExtractionReturns \/ ExtractionThrows

SpecExtraction == InitExtraction /\ [][NextExtraction]_vars

\* the table holds images with key and URL; no trigger has come
IdleServer ==
  /\ InitStore
  /\ \A id \in Records : Truthy(store[id].file.r2Key)
  /\ request = [w \in Workers |-> Null]
  /\ pc = [w \in Workers |-> "idle"]
  /\ pendingFiles = [w \in Workers |-> <<>>]
  /\ idx = [w \in Workers |-> 0]
  /\ result = [w \in Workers |-> NoResult]
  /\ caught = [w \in Workers |-> Empty]
  /\ processedCount = [w \in Workers |-> 0]
  /\ errorCount = [w \in Workers |-> 0]
  /\ response = [w \in Workers |-> [kind |-> "none"]]
  /\ trace = [w \in Workers |-> <<>>]
  /\ runs = 0
  /\ faults = 0
  /\ extraction = NoExtraction
  /\ tmpdir = {}
  /\ diagram = NoDiagram

\* the app starts on a new device
InitApp == IdleServer /\ InitClient

(***************************************************************************)
(* processMagicDiagram step by step, with the temporary file it writes.    *)
(***************************************************************************)
\* Date.now() when the temporary file is named
Clock == {0, 1}

\* path.join(os.tmpdir(), `${Date.now()}-${name}${extension}`)
tempPath(now, originalFileName) == <<now>> \o originalFileName

DiagramNames == { <<"sketch", ".png">> }

\* the call starts; the outcomes of its external calls are those of env
DiagramCall ==
  /\ diagram.pc = "off" /\ diagram.calls < MaxRuns
  /\ \E env \in Envs :
       diagram' = [diagram EXCEPT !.pc = "download", !.env = env,
                                  !.tempImagePath = Null, !.value = Null,
                                  !.calls = @ + 1]
  /\ UNCHANGED <<svars, cvars, tmpdir>>

\* 1, 2: downloadFromR2, then the temporary path is chosen
DiagramDownload ==
  /\ diagram.pc = "download"
  /\ IF diagram.env.dl = "fail"
     THEN diagram' = [diagram EXCEPT !.pc = "catch"]
     ELSE \E now \in Clock : \E name \in DiagramNames :
            diagram' = [diagram EXCEPT !.pc = "write",
                                       !.tempImagePath = tempPath(now, name)]
  /\ UNCHANGED <<svars, cvars, tmpdir>>

\* 3: fs.writeFileSync creates the file
DiagramWrite ==
  /\ diagram.pc = "write"
  /\ tmpdir' = tmpdir \cup {diagram.tempImagePath}
  /\ diagram' = [diagram EXCEPT !.pc = "edit"]
  /\ UNCHANGED <<svars, cvars>>

\* 3: fs.writeFileSync throws, with the file created in part or not at all
DiagramWriteThrows ==
  /\ diagram.pc = "write"
  /\ \/ tmpdir' = tmpdir \cup {diagram.tempImagePath}
     \/ tmpdir' = tmpdir
  /\ diagram' = [diagram EXCEPT !.pc = "catch"]
  /\ UNCHANGED <<svars, cvars>>

\* 5 to 8: the image model is called; no b64_json in its answer is an Error
DiagramEdit ==
  /\ diagram.pc = "edit"
  /\ diagram' = [diagram EXCEPT !.pc = IF diagram.env.img.kind = "ok"
                                       THEN "upload" ELSE "catch"]
  /\ UNCHANGED <<svars, cvars, tmpdir>>

\* 11 to 13: uploadToR2, then the result is returned
DiagramUpload ==
  /\ diagram.pc = "upload"
  /\ IF diagram.env.up = "ok"
     THEN diagram' = [diagram EXCEPT !.pc = "finally", !.value = "generated"]
     ELSE diagram' = [diagram EXCEPT !.pc = "catch"]
  /\ UNCHANGED <<svars, cvars, tmpdir>>

\* the catch block returns the error result
DiagramCatch ==
  /\ diagram.pc = "catch"
  /\ diagram' = [diagram EXCEPT !.pc = "finally", !.value = "error"]
  /\ UNCHANGED <<svars, cvars, tmpdir>>

\* 14 without the deletion: the file stays although unlinkSync did not throw
DiagramUnlinkKeeps ==
  /\ diagram.pc = "finally"
  /\ diagram.tempImagePath # Null /\ diagram.tempImagePath \in tmpdir
  /\ diagram' = [diagram EXCEPT !.pc = "returned"]
  /\ UNCHANGED <<svars, cvars, tmpdir>>

\* 14: fs.unlinkSync deletes the temporary file
DiagramUnlink ==
  /\ diagram.pc = "finally"
  /\ diagram.tempImagePath # Null /\ diagram.tempImagePath \in tmpdir
  /\ tmpdir' = tmpdir \ {diagram.tempImagePath}
  /\ diagram' = [diagram EXCEPT !.pc = "returned"]
  /\ UNCHANGED <<svars, cvars>>

\* 14: fs.unlinkSync throws (no such file, or the file cannot be deleted); the
\* catch block of the cleanup logs the failure.  kept collects the files
\* that were there when their deletion failed.
DiagramUnlinkThrows ==
  /\ diagram.pc = "finally"
  /\ diagram.tempImagePath # Null
  /\ diagram' = [diagram EXCEPT !.pc = "returned",
                                !.kept = @ \cup ({diagram.tempImagePath} \cap tmpdir)]
  /\ UNCHANGED <<svars, cvars, tmpdir>>

\* the download failed: no temporary path, nothing to clean up
DiagramNoCleanup ==
  /\ diagram.pc = "finally"
  /\ diagram.tempImagePath = Null
  /\ diagram' = [diagram EXCEPT !.pc = "returned"]
  /\ UNCHANGED <<svars, cvars, tmpdir>>

\* the caller has the result; the next call may start
DiagramReturn ==
  /\ diagram.pc = "returned"
  /\ diagram' = [diagram EXCEPT !.pc = "off"]
  /\ UNCHANGED <<svars, cvars, tmpdir>>

NextDiagram ==
  \/ DiagramCall
  \/ DiagramDownload
  \/ DiagramWrite
  \/ DiagramWriteThrows
  \/ DiagramEdit
  \/ DiagramUpload
  \/ DiagramCatch
  \/ DiagramUnlink
  \/ DiagramUnlinkThrows
  \/ DiagramNoCleanup
  \/ DiagramReturn

SpecDiagram == InitApp /\ [][NextDiagram]_vars

(***************************************************************************)
(* The mobile client: saveFileLocally, addToSyncQueue, processSyncQueue    *)
(* and startBackgroundSync on the device's file system.                    *)
(***************************************************************************)
MetadataJson == <<"metadata", ".json">>

ContentTxt == <<"content", ".txt">>

\* what the user shares: a text, an image, a text document, or nothing at all
SharedFiles ==
  { [name |-> <<"note">>, mimeType |-> <<"text", "/", "plain">>,
     text |-> <<"hello">>, uri |-> Null],
    [name |-> <<"photo", ".png">>, mimeType |-> <<"image", "/", "png">>,
     text |-> Null, uri |-> <<"file://", "photo", ".png">>],
    [name |-> <<"notes", ".txt">>, mimeType |-> <<"text", "/", "plain">>,
     text |-> Null, uri |-> <<"file://", "notes", ".txt">>],
    [name |-> <<"empty">>, mimeType |-> Null, text |-> Empty, uri |-> Null] }

\* queue[0] when JSON gave null for an undefined element
JsonNull == 0

\* the directory of a queue entry
itemOf(id) == IF id \in Items THEN disk.items[id] ELSE NoDir

\* a device file operation fails
glitch == glitches < MaxGlitches /\ glitches' = glitches + 1

\* name.endsWith(ext)
nameEndsWith(name, ext) == Len(name) > 0 /\ name[Len(name)] = ext

\* saveFileLocally is called; the local id is one no item has
SaveCall ==
  /\ saver.pc = "off"
  /\ \E file \in SharedFiles : \E id \in Items :
       /\ ~disk.items[id].exists
       /\ \A other \in Items : other < id => disk.items[other].exists
       /\ saver' = [NoSave EXCEPT !.pc = "mkdir", !.file = file, !.localId = id]
  /\ UNCHANGED <<svars, dvars, disk, drain, driver, poll, glitches, journal>>

\* ensurePendingUploadsDir, makeDirectoryAsync(fileDir), generatePreview
SaveMkdir ==
  /\ saver.pc = "mkdir"
  /\ \/ /\ disk' = [disk EXCEPT !.items[saver.localId].exists = TRUE]
        /\ saver' = [saver EXCEPT !.pc = "meta"]
        /\ UNCHANGED glitches
     \/ /\ glitch
        /\ \/ UNCHANGED disk
           \/ disk' = [disk EXCEPT !.items[saver.localId].exists = TRUE]
        /\ saver' = [saver EXCEPT !.pc = "threw"]
  /\ UNCHANGED <<svars, dvars, drain, driver, poll, journal>>

\* the metadata the item starts with
newMetadata == [status |-> <<"pending">>, error |-> Null, lastAttempt |-> 0]

\* metadata.json is written
SaveMetadata ==
  /\ saver.pc = "meta"
  /\ \/ /\ disk' = [disk EXCEPT !.items[saver.localId].metadata = newMetadata,
                               !.items[saver.localId].files = @ \cup {MetadataJson}]
        /\ saver' = [saver EXCEPT !.pc = "content"]
        /\ UNCHANGED glitches
     \/ /\ glitch
        /\ saver' = [saver EXCEPT !.pc = "threw"]
        /\ UNCHANGED disk
  /\ UNCHANGED <<svars, dvars, drain, driver, poll, journal>>

\* the files the content step writes: content.txt for a text, a copy of the
\* file under its name for a uri
contentFiles(file) ==
  IF Truthy(file.text) THEN {ContentTxt}
  ELSE IF Truthy(file.uri) THEN {file.name}
  ELSE {}

\* the content is written, or copying it fails
SaveContent ==
  /\ saver.pc = "content"
  /\ \/ /\ disk' = [disk EXCEPT !.items[saver.localId].files = @ \cup contentFiles(saver.file)]
        /\ saver' = [saver EXCEPT !.pc = "qread"]
        /\ UNCHANGED glitches
     \/ /\ contentFiles(saver.file) # {}
        /\ glitch
        /\ saver' = [saver EXCEPT !.pc = "threw"]
        /\ UNCHANGED disk
  /\ UNCHANGED <<svars, dvars, drain, driver, poll, journal>>

\* addToSyncQueue is called on its own
EnqueueCall ==
  /\ saver.pc = "off"
  /\ \E id \in Items : saver' = [NoSave EXCEPT !.pc = "qread", !.localId = id, !.direct = TRUE]
  /\ UNCHANGED <<svars, dvars, disk, drain, driver, poll, glitches, journal>>

\* addToSyncQueue reads the queue; when reading fails it starts a new queue
EnqueueRead ==
  /\ saver.pc = "qread"
  /\ \/ /\ saver' = [saver EXCEPT !.pc = "qwrite",
                                  !.queue = IF disk.queueExists THEN disk.queue ELSE <<>>]
        /\ UNCHANGED glitches
     \/ /\ glitch
        /\ saver' = [saver EXCEPT !.pc = "qwrite", !.queue = <<>>]
  /\ UNCHANGED <<svars, dvars, disk, drain, driver, poll, journal>>

\* queue.includes(localId)
queueIncludes(queue, localId) == \E i \in 1..Len(queue) : queue[i] = localId

\* addToSyncQueue pushes the id unless the queue has it, and writes the queue;
\* a failure of the write is logged
EnqueueWrite ==
  /\ saver.pc = "qwrite"
  /\ IF queueIncludes(saver.queue, saver.localId)
     THEN UNCHANGED <<disk, glitches>>
     ELSE \/ /\ disk' = [disk EXCEPT !.queueExists = TRUE,
                                       !.queue = Append(saver.queue, saver.localId)]
             /\ UNCHANGED glitches
          \/ glitch /\ UNCHANGED disk
  /\ saver' = [saver EXCEPT !.pc = "ret"]
  /\ UNCHANGED <<svars, dvars, drain, driver, poll, journal>>

\* saveFileLocally (or addToSyncQueue) returns, or saveFileLocally throws
SaveReturn ==
  /\ saver.pc \in {"ret", "threw"}
  /\ saver' = NoSave
  /\ UNCHANGED <<svars, dvars, disk, drain, driver, poll, glitches, journal>>

\* what handleFileProcess gives: a result with a status, or an exception
UploadOutcomes ==
  { [threw |-> FALSE, status |-> <<"completed">>, error |-> Null],
    [threw |-> FALSE, status |-> <<"error">>, error |-> <<"quota exceeded">>],
    [threw |-> FALSE, status |-> <<"error">>, error |-> Null],
    [threw |-> FALSE, status |-> <<"processing">>, error |-> Null],
    [threw |-> TRUE, status |-> Null, error |-> ErrorOf(<<"Network request failed">>)],
    [threw |-> TRUE, status |-> Null, error |-> PlainThrown(Null, <<"aborted">>)] }

\* the files of the directory that are not .json and not .txt
binaryFiles(files) ==
  { name \in files : ~nameEndsWith(name, ".json") /\ ~nameEndsWith(name, ".txt") }

\* the item has a content file processSyncQueue finds
contentFound(item) == ContentTxt \in item.files \/ binaryFiles(item.files) # {}

\* queue.shift()
shift(queue) == IF queue = <<>> THEN queue ELSE Tail(queue)

\* queue.push(queue.shift()!): of an empty queue, undefined is pushed
rotate(queue) ==
  IF queue = <<>> THEN <<JsonNull>> ELSE Append(Tail(queue), queue[1])

\* processSyncQueue returns
returns(d, value) ==
  drain' = [drain EXCEPT ![d].pc = "done", ![d].ret = value, ![d].todo = <<>>]

\* the writes that remain, with the queue and the metadata in memory
writes(d, localId, queue, metadata, todo, inTry) ==
  drain' = [drain EXCEPT ![d].pc = "write", ![d].localId = localId, ![d].queue = queue,
                         ![d].metadata = metadata, ![d].todo = todo, ![d].inTry = inTry,
                         ![d].read = IF drain[d].pc = "read" THEN disk.queue ELSE @]

\* processSyncQueue up to the call of handleFileProcess: the queue, the
\* directory of its head, the metadata and the content are read
DrainRead(d) ==
  /\ drain[d].pc = "read"
  /\ \/ /\ glitch
        /\ drain' = [drain EXCEPT ![d].pc = "done", ![d].ret = FALSE, ![d].failed = TRUE]
     \/ /\ UNCHANGED glitches
        /\ IF ~disk.queueExists \/ disk.queue = <<>>
           THEN returns(d, FALSE)
           ELSE LET queue == disk.queue
                    localId == queue[1]
                    item == itemOf(localId)
                IN  IF ~item.exists
                    THEN writes(d, localId, shift(queue), NoMetadata, <<"queue">>, FALSE)
                    ELSE IF MetadataJson \notin item.files
                    THEN returns(d, FALSE)
                    ELSE IF item.metadata.status = <<"completed">>
                    THEN writes(d, localId, shift(queue), item.metadata, <<"queue">>, FALSE)
                    ELSE IF ~contentFound(item)
                    THEN writes(d, localId, queue,
                                [item.metadata EXCEPT !.status = <<"error">>,
                                   !.error = <<"Local content file missing">>],
                                <<"metadata", "shift", "queue">>, FALSE)
                    ELSE drain' = [drain EXCEPT ![d].pc = "upload", ![d].localId = localId,
                                                ![d].queue = queue, ![d].read = queue,
                                                ![d].metadata = item.metadata]
  /\ UNCHANGED <<svars, dvars, disk, saver, driver, poll, journal>>

\* new Date().toISOString(): later than every attempt before
nowISO == Len(journal) + 1

\* metadata.error of a failed upload
uploadError(outcome) ==
  IF outcome.threw
  THEN IF outcome.error.isError THEN outcome.error.message
       ELSE <<"Critical processing error">>
  ELSE IF Truthy(outcome.error) THEN outcome.error ELSE <<"Unknown processing error">>

\* handleFileProcess ends: the metadata in memory follows its outcome
DrainUpload(d) ==
  /\ drain[d].pc = "upload"
  /\ \E outcome \in UploadOutcomes :
       /\ journal' = Append(journal, Event("upload", drain[d].localId, ~outcome.threw, outcome))
       /\ drain' = [drain EXCEPT
            ![d].pc = "write",
            ![d].outcome = outcome,
            ![d].inTry = ~outcome.threw,
            ![d].metadata =
              IF ~outcome.threw /\ outcome.status = <<"completed">>
              THEN [@ EXCEPT !.status = <<"completed">>, !.error = Null,
                             !.lastAttempt = nowISO]
              ELSE IF outcome.threw \/ outcome.status = <<"error">>
              THEN [@ EXCEPT !.status = <<"error">>, !.error = uploadError(outcome),
                             !.lastAttempt = nowISO]
              ELSE [@ EXCEPT !.lastAttempt = nowISO],
            ![d].todo =
              IF ~outcome.threw /\ outcome.status = <<"completed">>
              THEN <<"metadata", "shift", "queue">>
              ELSE IF outcome.threw \/ outcome.status = <<"error">>
              THEN <<"metadata", "rotate", "queue">>
              ELSE <<>>]
  /\ UNCHANGED <<svars, dvars, disk, saver, driver, poll, glitches>>

\* the next of the remaining steps: metadata.json is written, the queue in
\* memory is shifted or rotated, sync_queue.json is written; a write that fails
\* inside the try block is caught as a processing error, outside it ends the call
DrainWrite(d) ==
  /\ drain[d].pc = "write"
  /\ LET todo == drain[d].todo
         localId == drain[d].localId
     IN  IF todo = <<>>
         THEN /\ returns(d, Len(drain[d].queue) > 0)
              /\ UNCHANGED <<disk, glitches, journal>>
         ELSE IF todo[1] = "shift"
         THEN /\ drain' = [drain EXCEPT ![d].queue = shift(@), ![d].todo = Tail(todo)]
              /\ UNCHANGED <<disk, glitches, journal>>
         ELSE IF todo[1] = "rotate"
         THEN /\ drain' = [drain EXCEPT ![d].queue = rotate(@), ![d].todo = Tail(todo)]
              /\ UNCHANGED <<disk, glitches, journal>>
         ELSE \/ /\ UNCHANGED glitches
                 /\ IF todo[1] = "metadata"
                    THEN /\ disk' = [disk EXCEPT !.items[localId].metadata = drain[d].metadata]
                         /\ drain' = [drain EXCEPT ![d].todo = Tail(todo),
                                                   ![d].wrote.metadata = drain[d].metadata]
                         /\ journal' = Append(journal, Event("metadata", localId, TRUE,
                                                             drain[d].metadata.status))
                    ELSE /\ disk' = [disk EXCEPT !.queue = drain[d].queue]
                         /\ drain' = [drain EXCEPT ![d].todo = Tail(todo),
                                                   ![d].wrote.queue = drain[d].queue,
                                                   ![d].wrote.queueWritten = TRUE]
                         /\ UNCHANGED journal
              \/ /\ glitch
                 /\ UNCHANGED <<disk, journal>>
                 /\ IF drain[d].inTry
                    THEN drain' = [drain EXCEPT
                           ![d].failed = TRUE,
                           ![d].inTry = FALSE,
                           ![d].metadata = [@ EXCEPT !.status = <<"error">>,
                                                     !.error = <<"write failed">>,
                                                     !.lastAttempt = nowISO],
                           ![d].todo = <<"metadata", "rotate", "queue">>]
                    ELSE drain' = [drain EXCEPT ![d].pc = "done", ![d].ret = FALSE,
                                                ![d].todo = <<>>, ![d].failed = TRUE]
  /\ UNCHANGED <<svars, dvars, saver, driver, poll>>

\* startBackgroundSync: a closure with its own isProcessing, and the first
\* processNextItem
StartBackgroundSync(d) ==
  /\ ~driver[d].started
  /\ driver' = [driver EXCEPT ![d].started = TRUE, ![d].isProcessing = TRUE, ![d].calls = @ + 1]
  /\ drain' = [drain EXCEPT ![d] = [NoDrain EXCEPT !.pc = "read"]]
  /\ UNCHANGED <<svars, dvars, disk, saver, poll, glitches, journal>>

\* if (isProcessing) return
guard(isProcessing) == isProcessing

\* the timer fires: processNextItem runs unless isProcessing is set
TimerFires(d) ==
  /\ driver[d].timers > 0 /\ driver[d].calls < MaxDrains
  /\ IF guard(driver[d].isProcessing)
     THEN /\ driver' = [driver EXCEPT ![d].timers = @ - 1]
          /\ UNCHANGED drain
     ELSE /\ driver' = [driver EXCEPT ![d].timers = @ - 1, ![d].isProcessing = TRUE,
                                      ![d].calls = @ + 1]
          /\ drain' = [drain EXCEPT ![d] = [NoDrain EXCEPT !.pc = "read"]]
  /\ UNCHANGED <<svars, dvars, disk, saver, poll, glitches, journal>>

\* processSyncQueue has returned: the next item is scheduled when there are
\* more, and isProcessing is cleared
ProcessNextItemEnds(d) ==
  /\ drain[d].pc = "done"
  /\ driver' = [driver EXCEPT ![d].isProcessing = FALSE,
                              ![d].timers = IF drain[d].ret THEN @ + 1 ELSE @]
  /\ drain' = [drain EXCEPT ![d].pc = "off"]
  /\ UNCHANGED <<svars, dvars, disk, saver, poll, glitches, journal>>

Save ==
  \/ SaveCall
  \/ SaveMkdir
  \/ SaveMetadata
  \/ SaveContent
  \/ EnqueueRead
  \/ EnqueueWrite
  \/ SaveReturn

BackgroundSync(d) ==
  \/ StartBackgroundSync(d)
  \/ DrainRead(d)
  \/ DrainUpload(d)
  \/ DrainWrite(d)
  \/ ProcessNextItemEnds(d)
  \/ TimerFires(d)

\* the app saves what the user shares, and addToSyncQueue is called on its own
NextSave == Save \/ EnqueueCall

SpecSave == InitApp /\ [][NextSave]_vars

\* the app with one background driver
NextQueue == Save \/ BackgroundSync("D1")

(***************************************************************************)
(* generateTextPreview, on texts as sequences of characters.               *)
(***************************************************************************)
Chars == {"a", ".", "?", "!", " ", "\n"}

RECURSIVE Texts(_)
Texts(n) ==
  IF n = 0 THEN {<<>>}
  ELSE Texts(n - 1) \cup { Append(t, c) : t \in { u \in Texts(n - 1) : Len(u) = n - 1 }, c \in Chars }

\* the break points looked for: paragraph, and the three sentence ends
Separators == { <<"\n", "\n">>, <<".", " ">>, <<"?", " ">>, <<"!", " ">> }

\* text.indexOf(sep, from): the first index, counted from 0, at or after
\* from where sep starts, or -1
indexOf(text, sep, from) ==
  LET found == { p \in from..(Len(text) - Len(sep)) :
                   SubSeq(text, p + 1, p + Len(sep)) = sep }
  IN IF found = {} THEN -1
     ELSE CHOOSE p \in found : \A q \in found : p <= q

\* text.substring(0, end)
substring(text, end) == SubSeq(text, 1, end)

Ellipsis == <<".", ".", ".">>

\* a preview that is always cut at maxLength
generateTextPreviewHardCut(text, maxLength) ==
  IF text = <<>> \/ Len(text) <= maxLength THEN text
  ELSE substring(text, maxLength) \o Ellipsis

\* generateTextPreview(text, maxLength); the division gives the integer that
\* indexOf makes of maxLength / 2
generateTextPreview(text, maxLength) ==
  IF text = <<>> \/ Len(text) <= maxLength THEN text
  ELSE LET breakPoints ==
             { p \in { indexOf(text, sep, maxLength \div 2) : sep \in Separators } :
                 p # -1 /\ p < maxLength }
           breakPoint ==
             IF breakPoints # {}
             THEN (CHOOSE p \in breakPoints : \A q \in breakPoints : q <= p) + 1
             ELSE maxLength
       IN substring(text, breakPoint) \o Ellipsis

\* generateTextPreview is called and returns the preview
PreviewCall ==
  /\ saver.pc = "preview"
  /\ saver' = [saver EXCEPT
                 !.pc = "previewed",
                 !.preview = generateTextPreview(saver.file.text, saver.maxLength)]
  /\ UNCHANGED <<svars, dvars, disk, drain, driver, poll, glitches, journal>>

\* a text of any kind is about to get its preview, with any maxLength
InitPreview ==
  /\ IdleServer
  /\ disk = NewDisk
  /\ \E text \in Texts(MaxText) : \E maxLength \in 0..MaxText + 1 :
       saver = [NoSave EXCEPT
                  !.pc = "preview",
                  !.file = [name |-> <<"note">>, mimeType |-> <<"text", "/", "plain">>,
                            text |-> text, uri |-> Null],
                  !.maxLength = maxLength]
  /\ drain = [d \in Drivers |-> NoDrain]
  /\ driver = [d \in Drivers |-> NoDriver]
  /\ poll = NoPoll
  /\ glitches = 0
  /\ journal = <<>>

SpecPreview == InitPreview /\ [][PreviewCall]_vars

(***************************************************************************)
(* pollForResults: the status endpoint is asked until it gives a terminal  *)
(* status or maxAttempts is reached.                                       *)
(***************************************************************************)
\* response.status of a file the server does not know yet
NotFound == 404

\* fileId: string | number
FileIds == { [isNumber |-> TRUE, digits |-> <<"7">>],
             [isNumber |-> FALSE, digits |-> <<"7">>] }

\* String(pollId)
fileIdStr(pollId) == pollId.digits

\* what the status endpoint can put in its JSON body; the body has a fileId
\* field of its own
StatusBodies ==
  { UploadResult(<<"completed">>, Null, <<"markdown">>, <<"server-id">>),
    UploadResult(<<"error">>, <<"boom">>, Null, <<"server-id">>),
    UploadResult(<<"pending">>, Null, Null, <<"server-id">>),
    UploadResult(<<"processing">>, Null, Null, <<"server-id">>),
    UploadResult(<<"queued">>, Null, Null, <<"server-id">>),
    UploadResult(Null, Null, <<"markdown">>, <<"server-id">>) }

\* the outcomes of one fetch: an OK response with a body, a response that
\* is not OK, or a rejected fetch
StatusResponses ==
  { [threw |-> FALSE, ok |-> TRUE, status |-> 200, body |-> b] : b \in StatusBodies }
    \cup { [threw |-> FALSE, ok |-> FALSE, status |-> c, body |-> NoUploadResult] :
              c \in {NotFound, 500} }
    \cup { [threw |-> TRUE, ok |-> FALSE, status |-> 0, body |-> NoUploadResult] }

NoResponse == [threw |-> FALSE, ok |-> FALSE, status |-> 0, body |-> NoUploadResult]

\* what the call did, in order: requests with their answers, and sleeps
Requested(answer) == [op |-> "request", ms |-> "", response |-> answer]

Slept(ms) == [op |-> "sleep", ms |-> ms, response |-> NoResponse]

\* the result as the server sent it, with the fileId of the body
withFileIdKeepsBody(body, pollId) == body

\* { ...result, fileId: fileIdStr }
withFileId(body, pollId) == [body EXCEPT !.fileId = fileIdStr(pollId)]

\* result.status === 'completed', and nothing else, ends the polling
terminalOnlyCompleted(st) == st = <<"completed">>

\* result.status === 'completed' || result.status === 'error'
terminal(st) == st \in {<<"completed">>, <<"error">>}

TimedOut(pollId) ==
  UploadResult(<<"error">>, <<"Timed out waiting for processing results">>,
               Null, fileIdStr(pollId))

\* a call that takes the polling path whatever isTextFile is
PollCallAlwaysDelays ==
  /\ poll.pc = "off" /\ poll.calls < MaxRuns
  /\ \E pollId \in FileIds : \E isTextFile \in BOOLEAN : \E maxAttempts \in 0..MaxAttempts :
       poll' = [pc |-> "delay",
                fileId |-> pollId, isTextFile |-> isTextFile,
                maxAttempts |-> maxAttempts, attempts |-> 0, history |-> <<>>,
                ret |-> NoUploadResult, calls |-> poll.calls + 1]
  /\ UNCHANGED <<svars, dvars, disk, saver, drain, driver, glitches, journal>>

\* pollForResults is called
PollCall ==
  /\ poll.pc = "off" /\ poll.calls < MaxRuns
  /\ \E pollId \in FileIds : \E isTextFile \in BOOLEAN : \E maxAttempts \in 0..MaxAttempts :
       poll' = [pc |-> IF isTextFile THEN "text" ELSE "delay",
                fileId |-> pollId, isTextFile |-> isTextFile,
                maxAttempts |-> maxAttempts, attempts |-> 0, history |-> <<>>,
                ret |-> NoUploadResult, calls |-> poll.calls + 1]
  /\ UNCHANGED <<svars, dvars, disk, saver, drain, driver, glitches, journal>>

\* isTextFile: one request for the final details
PollTextFile ==
  /\ poll.pc = "text"
  /\ \E answer \in StatusResponses :
       poll' = [poll EXCEPT
                  !.pc = "done",
                  !.history = Append(@, Requested(answer)),
                  !.ret = IF answer.threw \/ ~answer.ok
                          THEN UploadResult(<<"error">>,
                                   <<"Failed to get final details for text file">>,
                                   Null, fileIdStr(poll.fileId))
                          ELSE [withFileId(answer.body, poll.fileId) EXCEPT
                                  !.status = IF Truthy(answer.body.status)
                                             THEN answer.body.status
                                             ELSE <<"completed">>]]
  /\ UNCHANGED <<svars, dvars, disk, saver, drain, driver, glitches, journal>>

\* the initial delay before the first poll
PollInitialDelay ==
  /\ poll.pc = "delay"
  /\ poll' = [poll EXCEPT !.pc = "while", !.history = Append(@, Slept("initialDelay"))]
  /\ UNCHANGED <<svars, dvars, disk, saver, drain, driver, glitches, journal>>

\* a loop that allows one attempt more: while (attempts <= maxAttempts)
PollWhileOneMore ==
  /\ poll.pc = "while"
  /\ poll' = IF poll.attempts <= poll.maxAttempts
             THEN [poll EXCEPT !.pc = "fetch"]
             ELSE [poll EXCEPT !.pc = "done", !.ret = TimedOut(poll.fileId)]
  /\ UNCHANGED <<svars, dvars, disk, saver, drain, driver, glitches, journal>>

\* while (attempts < maxAttempts); after the loop the timeout is returned
PollWhile ==
  /\ poll.pc = "while"
  /\ poll' = IF poll.attempts < poll.maxAttempts
             THEN [poll EXCEPT !.pc = "fetch"]
             ELSE [poll EXCEPT !.pc = "done", !.ret = TimedOut(poll.fileId)]
  /\ UNCHANGED <<svars, dvars, disk, saver, drain, driver, glitches, journal>>

\* one pass of the loop body up to its return or its sleep
PollFetch ==
  /\ poll.pc = "fetch"
  /\ \E answer \in StatusResponses :
       LET asked == Append(poll.history, Requested(answer)) IN
       poll' =
         IF answer.threw
         THEN IF poll.attempts + 1 >= poll.maxAttempts
              THEN [poll EXCEPT
                      !.pc = "done", !.history = asked, !.attempts = @ + 1,
                      !.ret = UploadResult(<<"error">>,
                                <<"Max polling attempts reached after error">>,
                                Null, fileIdStr(poll.fileId))]
              ELSE [poll EXCEPT !.pc = "sleep", !.history = asked, !.attempts = @ + 1]
         ELSE IF answer.ok /\ terminal(answer.body.status)
         THEN [poll EXCEPT !.pc = "done", !.history = asked,
                           !.ret = withFileId(answer.body, poll.fileId)]
         ELSE [poll EXCEPT !.pc = "sleep", !.history = asked, !.attempts = @ + 1]
  /\ UNCHANGED <<svars, dvars, disk, saver, drain, driver, glitches, journal>>

\* setTimeout(resolve, pollInterval), then the loop condition again
PollSleep ==
  /\ poll.pc = "sleep"
  /\ poll' = [poll EXCEPT !.pc = "while", !.history = Append(@, Slept("pollInterval"))]
  /\ UNCHANGED <<svars, dvars, disk, saver, drain, driver, glitches, journal>>

\* the caller has the result
PollReturn ==
  /\ poll.pc = "done"
  /\ poll' = [poll EXCEPT !.pc = "off"]
  /\ UNCHANGED <<svars, dvars, disk, saver, drain, driver, glitches, journal>>

NextPoll ==
  \/ PollCall
  \/ PollTextFile
  \/ PollInitialDelay
  \/ PollWhile
  \/ PollFetch
  \/ PollSleep
  \/ PollReturn

SpecPoll == InitApp /\ [][NextPoll]_vars

\* every awaited fetch settles and every timer fires
SpecPollLive == SpecPoll /\ WF_vars(NextPoll)

\* a device on which every item was saved as a text and queued
SavedDisk ==
  [queueExists |-> TRUE,
   queue |-> [i \in Items |-> i],
   items |-> [i \in Items |->
               [exists |-> TRUE, files |-> {MetadataJson, ContentTxt},
                metadata |-> newMetadata]]]

\* startBackgroundSync is called twice on that device; the device works
NextDrivers == \E d \in Drivers : BackgroundSync(d)

InitDrivers ==
  /\ IdleServer
  /\ disk = SavedDisk
  /\ saver = NoSave
  /\ drain = [d \in Drivers |-> NoDrain]
  /\ driver = [d \in Drivers |-> [NoDriver EXCEPT !.calls = MaxDrains - 2]]
  /\ poll = NoPoll
  /\ glitches = MaxGlitches
  /\ journal = <<>>

SpecDrivers == InitDrivers /\ [][NextDrivers]_vars

SpecQueue == InitApp /\ [][NextQueue]_vars

\* the same app on a device whose file system never fails
InitSteady ==
  /\ IdleServer
  /\ disk = NewDisk
  /\ saver = NoSave
  /\ drain = [d \in Drivers |-> NoDrain]
  /\ driver = [d \in Drivers |-> NoDriver]
  /\ poll = NoPoll
  /\ glitches = MaxGlitches
  /\ journal = <<>>

SpecSteady == InitSteady /\ [][NextQueue]_vars

(***************************************************************************)
(* Reading the history of an invocation.                                   *)
(***************************************************************************)
\* the invocation went through its whole batch and is about to send the summary
summarised(w) == pc[w] = "respond" /\ response[w].kind = "summary"

\* positions of the batch
positions(w) == 1..Len(pendingFiles[w])

\* positions in the trace of the events op of record id
events(w, op, id) ==
  { k \in 1..Len(trace[w]) : trace[w][k].op = op /\ trace[w][k].id = id }

\* a claim write, the extractor or a commit write threw for the event at k
threwAt(w, k) ==
  /\ trace[w][k].op \in {"claim", "extract", "commit"}
  /\ ~trace[w][k].ok

\* the fallback write of record id was attempted and threw
fallbackFailed(w, id) == \E k \in events(w, "fallback", id) : ~trace[w][k].ok

\* the result the extractor returned for record id in this invocation, if any
returnedFor(w, id) == { trace[w][k].val : k \in { j \in events(w, "extract", id) : trace[w][j].ok } }

\* the commit write of record id succeeded in this invocation
committed(w, id) == \E k \in events(w, "commit", id) : trace[w][k].ok

\* the metering calls made for record id in this invocation
meterCalls(w, id) == events(w, "meter", id)

(***************************************************************************)
(* C1.  As claimed: when an invocation returns its summary, every record   *)
(* of its batch is stored as completed or error.                           *)
(***************************************************************************)
C1_AllTerminalAtReturn ==
  \A w \in Workers :
    summarised(w) =>
      \A i \in positions(w) : store[pendingFiles[w][i].file.id].status \in Terminal

(***************************************************************************)
(* C1, amended.  When an invocation (not overlapped by another) returns    *)
(* its summary, a record of its batch is stored as completed or error      *)
(* unless the fallback write for it threw; such a record keeps the status  *)
(* it had before the write that failed: pending or processing.             *)
(***************************************************************************)
C1_TerminalUnlessFallbackFailed ==
  \A w \in Workers :
    summarised(w) =>
      \A i \in positions(w) :
        LET id == pendingFiles[w][i].file.id
        IN  IF fallbackFailed(w, id)
            THEN store[id].status \in Claimable
            ELSE store[id].status \in Terminal

C1_Witness ==
  \E w \in Workers :
    /\ summarised(w)
    /\ \E i \in positions(w) : fallbackFailed(w, pendingFiles[w][i].file.id)
    /\ \E i \in positions(w) : store[pendingFiles[w][i].file.id].status = "completed"

(***************************************************************************)
(* C2.  When the extractor is about to run for a fetched record: if the    *)
(* record was fetched with a status other than processing, the store holds *)
(* the claim write (status processing, error null, a later updatedAt, the  *)
(* other columns as fetched); if it was fetched as processing, the stored  *)
(* row is the fetched row: nothing was written.                            *)
(***************************************************************************)
C2_ClaimBeforeExtract ==
  \A w \in Workers :
    pc[w] = "extract" =>
      LET f == fileRecord(w)
          row == store[f.file.id]
      IN  IF f.status # "processing"
          THEN /\ row.status = "processing"
               /\ row.error = Null
               /\ row.updatedAt > f.updatedAt
               /\ row.file = f.file
               /\ row.textContent = f.textContent
               /\ row.generatedImageUrl = f.generatedImageUrl
               /\ row.tokensUsed = f.tokensUsed
               /\ events(w, "claim", f.file.id) # {}
          ELSE /\ row = f
               /\ events(w, "claim", f.file.id) = {}

C2_Witness ==
  \E w \in Workers :
    /\ pc[w] = "extract"
    /\ fileRecord(w).status = "processing"
    /\ idx[w] > 1
    /\ pendingFiles[w][1].status = "pending"
    /\ store[pendingFiles[w][1].file.id].updatedAt > 0

(***************************************************************************)
(* C3.  With invocations that do not overlap, a record stored as completed *)
(* or error is left as it is by every step of the worker, and no batch     *)
(* fetched afterwards contains it.                                         *)
(***************************************************************************)
C3_TerminalUntouched ==
  [][\A id \in Records :
       store[id].status \in Terminal =>
         /\ store'[id] = store[id]
         /\ \A w \in Workers :
              pc[w] = "idle" =>
                \A i \in 1..Len(pendingFiles'[w]) : pendingFiles'[w][i].file.id # id]_vars

C3_Witness ==
  \E w \in Workers :
    /\ runs >= 2
    /\ pc[w] = "commit"
    /\ \E id \in Records :
         /\ store[id].status \in Terminal
         /\ \A i \in positions(w) : pendingFiles[w][i].file.id # id

(***************************************************************************)
(* C4.  As claimed, for overlapping invocations: once an invocation has    *)
(* committed completed or error for a record, the stored status of the     *)
(* record is never set back to processing.                                 *)
(***************************************************************************)
C4_NoRegressionToProcessing ==
  [][\A id \in Records :
       (store[id].status \in Terminal /\ \E w \in Workers : committed(w, id))
         => store'[id].status # "processing"]_vars

(***************************************************************************)
(* C5.  As claimed: in an invocation that returns its summary, the         *)
(* metering service is called once for each record whose extractor result  *)
(* is completed with tokensUsed > 0, and for no other record.              *)
(***************************************************************************)
C5_MeteredIffResultBillable ==
  \A w \in Workers :
    summarised(w) =>
      \A i \in positions(w) :
        LET id == pendingFiles[w][i].file.id
            billable == \E res \in returnedFor(w, id) :
                          res.status = "completed" /\ res.tokensUsed > 0
        IN  Cardinality(meterCalls(w, id)) = IF billable THEN 1 ELSE 0

(***************************************************************************)
(* C5, amended.  In one invocation the metering service is called at most  *)
(* once per record, right after the successful commit write of a result    *)
(* that is completed with tokensUsed > 0, with the record's userId and     *)
(* exactly result.tokensUsed; when the invocation returns its summary it   *)
(* was called for every record with such a result whose commit write       *)
(* succeeded, and for no other record (none when the commit write threw).  *)
(***************************************************************************)
C5_MeteredIffBillableAndCommitted ==
  \A w \in Workers :
    /\ \A k \in 1..Len(trace[w]) :
         trace[w][k].op = "meter" =>
           /\ k >= 3
           /\ trace[w][k - 1] = Event("commit", trace[w][k].id, TRUE, 0)
           /\ trace[w][k - 2].op = "extract"
           /\ trace[w][k - 2].id = trace[w][k].id
           /\ trace[w][k - 2].ok
           /\ trace[w][k - 2].val.status = "completed"
           /\ trace[w][k - 2].val.tokensUsed > 0
           /\ trace[w][k].val.tokens = trace[w][k - 2].val.tokensUsed
           /\ trace[w][k].val.userId = store[trace[w][k].id].file.userId
    /\ \A id \in Records : Cardinality(meterCalls(w, id)) <= 1
    /\ summarised(w) =>
         \A i \in positions(w) :
           LET id == pendingFiles[w][i].file.id
               billable == \E res \in returnedFor(w, id) :
                             res.status = "completed" /\ res.tokensUsed > 0
           IN  (meterCalls(w, id) # {}) <=> (billable /\ committed(w, id))

C5_Witness ==
  \E w \in Workers :
    /\ summarised(w)
    /\ \E i \in positions(w) : meterCalls(w, pendingFiles[w][i].file.id) # {}
    /\ \E i \in positions(w) :
         LET id == pendingFiles[w][i].file.id
         IN  /\ \E res \in returnedFor(w, id) :
                  res.status = "completed" /\ res.tokensUsed > 0
             /\ ~committed(w, id)

(***************************************************************************)
(* C6.  The step in which the commit write succeeds sets status,           *)
(* textContent, generatedImageUrl, tokensUsed and error of the record to   *)
(* the values of the extractor's result and gives it a later updatedAt; it *)
(* changes no other column and no other record.                            *)
(***************************************************************************)
C6_CommitWritesResult ==
  [][\A w \in Workers :
       (pc[w] = "commit" /\ pc'[w] \in {"meter", "claim", "respond"}) =>
         LET id == fileId(w)
             res == result[w]
         IN  /\ store'[id].status = res.status
             /\ store'[id].textContent = res.textContent
             /\ store'[id].generatedImageUrl = res.generatedImageUrl
             /\ store'[id].tokensUsed = res.tokensUsed
             /\ store'[id].error = res.error
             /\ store'[id].updatedAt > store[id].updatedAt
             /\ store'[id].file = store[id].file
             /\ \A o \in Records \ {id} : store'[o] = store[o]]_vars

C6_Witness ==
  \E w \in Workers :
    /\ pc[w] = "meter"
    /\ store[fileId(w)].status = "completed"
    /\ store[fileId(w)].textContent = <<"hello">>
    /\ store[fileId(w)].tokensUsed = 7
    /\ store[fileId(w)].error = Null

\* the event at k ended the handling of its record: the loop is at the next
\* record of the batch, or past the last one with the summary ready
continues(w, k) ==
  LET i == CHOOSE j \in positions(w) : pendingFiles[w][j].file.id = trace[w][k].id
  IN  IF i < Len(pendingFiles[w])
      THEN IF k < Len(trace[w])
           THEN /\ trace[w][k + 1].op \in {"claim", "resume"}
                /\ trace[w][k + 1].id = pendingFiles[w][i + 1].file.id
           ELSE pc[w] = "claim" /\ idx[w] = i + 1
      ELSE k = Len(trace[w]) /\ summarised(w)

\* records of this invocation whose handling threw
thrown(w) == { k \in 1..Len(trace[w]) : threwAt(w, k) }

\* records of this invocation committed with the status st
committedAs(w, st) ==
  { k \in 2..Len(trace[w]) :
      /\ trace[w][k].op = "commit" /\ trace[w][k].ok
      /\ trace[w][k - 1].val.status = st }

(***************************************************************************)
(* C7.  When the claim write, the extractor or the commit write throws for *)
(* a record, the next thing the worker does is one fallback write for that *)
(* record (status error, error "Processing Loop Error: ..."), the record   *)
(* is counted in Errors, and whether the fallback write succeeds or throws *)
(* the loop goes on with the next record of the batch.                     *)
(***************************************************************************)
C7_FallbackThenNextRecord ==
  \A w \in Workers :
    /\ \A k \in thrown(w) :
         IF k < Len(trace[w])
         THEN trace[w][k + 1].op = "fallback" /\ trace[w][k + 1].id = trace[w][k].id
         ELSE pc[w] = "fallback" /\ fileId(w) = trace[w][k].id
    /\ \A k \in 1..Len(trace[w]) :
         trace[w][k].op = "fallback" =>
           /\ k - 1 \in thrown(w)
           /\ Cardinality(events(w, "fallback", trace[w][k].id)) = 1
           /\ trace[w][k].ok =>
                /\ store[trace[w][k].id].status = "error"
                /\ startsWith(store[trace[w][k].id].error, <<"Processing Loop Error: ">>)
           /\ continues(w, k)
    /\ pc[w] # "idle" =>
         errorCount[w] = Cardinality(thrown(w)) + Cardinality(committedAs(w, "error"))
    /\ summarised(w) => response[w].errors = errorCount[w]

C7_Witness ==
  \E w \in Workers :
    /\ summarised(w)
    /\ Len(pendingFiles[w]) = 2
    /\ trace[w][2] = Event("claim", pendingFiles[w][1].file.id, FALSE, 0)
    /\ trace[w][3] = Event("fallback", pendingFiles[w][1].file.id, FALSE, 0)
    /\ committed(w, pendingFiles[w][2].file.id)
    /\ response[w].errors = 1

(***************************************************************************)
(* C8.  An invocation answers 500 exactly when its batch query failed.     *)
(* Once the batch is fetched, whatever throws for a record (claim write,   *)
(* extractor, commit write, fallback write, metering), the loop visits     *)
(* every record of the batch and the invocation answers with the summary.  *)
(***************************************************************************)
C8_OnlyFetchFailureIs500 ==
  \A w \in Workers :
    pc[w] = "respond" =>
      /\ response[w].code >= 500 <=> trace[w] = <<Event("fetch", 0, FALSE, 0)>>
      /\ Len(pendingFiles[w]) > 0 =>
           /\ summarised(w)
           /\ response[w].attempted = Len(pendingFiles[w])
           /\ \A i \in positions(w) :
                events(w, "claim", pendingFiles[w][i].file.id)
                  \cup events(w, "resume", pendingFiles[w][i].file.id) # {}

C8_Witness ==
  \E w \in Workers :
    /\ summarised(w)
    /\ Len(pendingFiles[w]) = 2
    /\ \E k \in 1..Len(trace[w]) : trace[w][k].op = "commit" /\ ~trace[w][k].ok
    /\ \E k \in 1..Len(trace[w]) : trace[w][k].op = "meter" /\ ~trace[w][k].ok

(***************************************************************************)
(* C9.  When the metering call throws for a record, the record stays       *)
(* stored as completed with the columns the commit write gave it, no       *)
(* fallback write is made for it, it is counted in Succeeded, and the loop *)
(* goes on with the next record.                                           *)
(***************************************************************************)
C9_MeteringFailureNotFatal ==
  \A w \in Workers :
    /\ \A k \in 3..Len(trace[w]) :
         (trace[w][k].op = "meter" /\ ~trace[w][k].ok) =>
           LET id == trace[w][k].id
               res == trace[w][k - 2].val
           IN  /\ store[id].status = "completed"
               /\ store[id].textContent = res.textContent
               /\ store[id].generatedImageUrl = res.generatedImageUrl
               /\ store[id].tokensUsed = res.tokensUsed
               /\ store[id].error = res.error
               /\ events(w, "fallback", id) = {}
               /\ continues(w, k)
    /\ pc[w] # "idle" => processedCount[w] = Cardinality(committedAs(w, "completed"))
    /\ summarised(w) => response[w].succeeded = processedCount[w]

C9_Witness ==
  \E w \in Workers :
    /\ summarised(w)
    /\ Len(pendingFiles[w]) = 2
    /\ Len(trace[w]) >= 6
    /\ trace[w][6].op = "meter" /\ ~trace[w][6].ok
    /\ trace[w][6].id = pendingFiles[w][1].file.id
    /\ committed(w, pendingFiles[w][2].file.id)
    /\ response[w].succeeded = 2

(***************************************************************************)
(* C10.  As claimed: processSingleFileRecord never throws, and the result  *)
(* it returns has status completed or error, error exactly when its error  *)
(* field is not null.                                                      *)
(***************************************************************************)
C10_NeverThrows ==
  /\ extraction.state # "threw"
  /\ extraction.state = "returned" =>
       /\ extraction.value.status \in Terminal
       /\ extraction.value.status = "error" <=> extraction.value.error # Null

\* the part of C10 about the results that are returned
C10_ReturnedWellFormed ==
  extraction.state = "returned" =>
    /\ extraction.value.status \in Terminal
    /\ extraction.value.status = "error" <=> extraction.value.error # Null

(***************************************************************************)
(* Reading the external calls of an extraction.                            *)
(***************************************************************************)
\* the call ended with an exception
failed(c) ==
  CASE c.fn \in {"downloadFromR2", "uploadToR2"} -> c.out.threw
    [] c.fn = "generateObject" -> ~c.out.ok
    [] OTHER -> c.out.kind # "ok"

\* the message of the exception the call ended with
messageOf(c) ==
  CASE c.fn \in {"downloadFromR2", "uploadToR2"} -> c.out.error.message
    [] c.fn = "generateObject" -> c.out.error.message
    [] OTHER -> IF c.out.kind = "throw" THEN diagramErrorMessage(c.out.error)
                ELSE <<"Image generation failed, no b64_json returned in the response.">>

endsWith(s, p) == Len(s) >= Len(p) /\ SubSeq(s, Len(s) - Len(p) + 1, Len(s)) = p

\* the calls of the extraction that was run on its own
extractionCalls == calls(extraction.fileRecord, extraction.env)

hasText(row) == Truthy(row.textContent)

\* generatedImageUrl holds a URL
hasImage(row) == Truthy(row.generatedImageUrl)

\* neither column is set and the error column is
hasOnlyError(row) ==
  row.textContent = Null /\ row.generatedImageUrl = Null /\ row.error # Null

\* the text the magic-diagram strategy stores next to the generated image
diagramLink(url) == <<"[Generated Diagram Image](">> \o url \o <<")">>

(***************************************************************************)
(* C12.  As claimed: a record stored as completed or error has exactly one *)
(* of: textContent set, generatedImageUrl set, both null with error set;   *)
(* so textContent and generatedImageUrl are never both set.                *)
(***************************************************************************)
C12_ExactlyOneOfContent ==
  \A id \in Records :
    store[id].status \in Terminal =>
      \/ hasText(store[id]) /\ ~hasImage(store[id]) /\ ~hasOnlyError(store[id])
      \/ ~hasText(store[id]) /\ hasImage(store[id]) /\ ~hasOnlyError(store[id])
      \/ ~hasText(store[id]) /\ ~hasImage(store[id]) /\ hasOnlyError(store[id])

(***************************************************************************)
(* C12, amended.  With invocations that do not overlap, a record stored as *)
(* completed or error has exactly one of: textContent not null (extracted  *)
(* text, possibly empty, a placeholder, or "[Processing Error: ...]") and  *)
(* generatedImageUrl null; generatedImageUrl set, with status completed,   *)
(* error null and textContent the Markdown link to that URL; both null     *)
(* with status error and error set.  The error column is set exactly on    *)
(* the records stored as error.                                            *)
(***************************************************************************)
C12_ContentShape ==
  \A id \in Records :
    store[id].status \in Terminal =>
      LET row == store[id]
          textOnly == row.textContent # Null /\ row.generatedImageUrl = Null
          imageWithLink == /\ hasImage(row)
                           /\ row.status = "completed"
                           /\ row.error = Null
                           /\ row.textContent = diagramLink(row.generatedImageUrl)
          errorOnly == hasOnlyError(row) /\ row.status = "error"
      IN  /\ \/ textOnly /\ ~imageWithLink /\ ~errorOnly
             \/ ~textOnly /\ imageWithLink /\ ~errorOnly
             \/ ~textOnly /\ ~imageWithLink /\ errorOnly
          /\ row.status = "error" <=> row.error # Null

C12_Witness ==
  \E id \in Records :
    /\ store[id].status = "completed"
    /\ hasImage(store[id])
    /\ hasText(store[id])
    /\ \E w \in Workers : committed(w, id)

(***************************************************************************)
(* C13.  As claimed: a stored record has tokensUsed > 0 only if its status *)
(* is completed; every record stored as error has tokensUsed = 0.          *)
(***************************************************************************)
C13_TokensOnlyWhenCompleted ==
  \A id \in Records :
    /\ store[id].tokensUsed > 0 => store[id].status = "completed"
    /\ store[id].status = "error" => store[id].tokensUsed = 0

(***************************************************************************)
(* C14.  An invocation fetches at most BatchLimit (10) records, each with  *)
(* status pending or processing as the table holds it at the fetch, and    *)
(* every claim, extraction, commit, metering call and fallback write of    *)
(* the invocation, and every change of a row, is on a record of that batch.*)
(***************************************************************************)
fetched(w) == { pendingFiles[w][i].file.id : i \in 1..Len(pendingFiles[w]) }

C14_OnlyTheFetchedBatch ==
  [][\A w \in Workers :
       /\ Len(pendingFiles'[w]) <= BatchLimit
       /\ pendingFiles'[w] # pendingFiles[w] =>
            \A i \in 1..Len(pendingFiles'[w]) :
              /\ pendingFiles'[w][i].status \in {"pending", "processing"}
              /\ pendingFiles'[w][i].file.id \in DOMAIN store
              /\ pendingFiles'[w][i] = store[pendingFiles'[w][i].file.id]
              /\ \A j \in 1..Len(pendingFiles'[w]) :
                    i # j => pendingFiles'[w][i].file.id # pendingFiles'[w][j].file.id
       /\ \A k \in 1..Len(trace'[w]) :
            trace'[w][k].op # "fetch" =>
              \E i \in 1..Len(pendingFiles'[w]) :
                pendingFiles'[w][i].file.id = trace'[w][k].id
       /\ \A id \in DOMAIN store :
            store'[id] # store[id] =>
              \E v \in Workers : id \in fetched(v) /\ fileId(v) = id]_vars

\* an invocation answered with its summary after a batch of BatchLimit records,
\* and a pending record it did not fetch is still as the intake path stored it
C14_Witness ==
  \E w \in Workers :
    /\ summarised(w)
    /\ Len(pendingFiles[w]) = BatchLimit
    /\ processedCount[w] + errorCount[w] = BatchLimit
    /\ \E id \in DOMAIN store :
         /\ id \notin fetched(w)
         /\ store[id] = NewRow(store[id].file)

(***************************************************************************)
(* C15.  With invocations triggered again and again, an extractor that     *)
(* returns and finitely many failures, every record stored as pending or   *)
(* processing (one left processing by an invocation that died after its    *)
(* claim write included) is eventually stored as completed or error.       *)
(***************************************************************************)
C15_EventuallyTerminal ==
  \A id \in Records :
    (store[id].status \in {"pending", "processing"})
      ~> (store[id].status \in {"completed", "error"})

\* a record fetched as processing, left so by the invocation before, is committed
C15_Witness ==
  \E w \in Workers : \E id \in Records :
    /\ events(w, "resume", id) # {}
    /\ committed(w, id)
    /\ store[id].status \in {"completed", "error"}
    /\ faults = MaxFaults

(***************************************************************************)
(* C16.  A claim step applied to a record that a claim step has already    *)
(* set to processing, with no commit in between (the record was fetched as *)
(* pending by two invocations, or fetched as processing by the next one),  *)
(* is not refused, and leaves the record processing with textContent,      *)
(* generatedImageUrl and tokensUsed as they were when it was fetched.      *)
(***************************************************************************)
C16_SecondClaimKeepsProcessing ==
  [][\A w \in Workers :
       (pc[w] = "claim" /\ store[fileId(w)].status = "processing") =>
         /\ ENABLED (ClaimWrite(w) \/ ClaimResumed(w))
         /\ pc'[w] = "extract" =>
              LET id == fileId(w)
              IN  /\ store'[id].status = "processing"
                  /\ store'[id].error = Null
                  /\ store'[id].textContent = fileRecord(w).textContent
                  /\ store'[id].generatedImageUrl = fileRecord(w).generatedImageUrl
                  /\ store'[id].tokensUsed = fileRecord(w).tokensUsed
                  /\ store'[id].file = fileRecord(w).file]_vars

\* two invocations fetched the record as pending and both wrote their claim
C16_Witness ==
  \E id \in Records :
    /\ store[id].status = "processing"
    /\ store[id].updatedAt = 2
    /\ \A w \in Workers :
         /\ pc[w] = "extract"
         /\ fileId(w) = id
         /\ fileRecord(w).status = "pending"
         /\ events(w, "claim", id) # {}

(***************************************************************************)
(* C17.  When the batch query returns no record, the invocation answers    *)
(* with the idle summary ("No pending files") in that same step: it writes *)
(* nothing to the store, and until the response leaves it has made no      *)
(* claim, extraction, commit, fallback or metering call.                   *)
(***************************************************************************)
C17_IdleDoesNothing ==
  [][\A w \in Workers :
       (trace'[w] # <<>> /\ trace'[w][1] = Event("fetch", 0, TRUE, 0)) =>
         /\ trace'[w] = <<Event("fetch", 0, TRUE, 0)>>
         /\ pc'[w] = "respond"
         /\ response'[w] = [kind |-> "idle", code |-> 200]
         /\ pendingFiles'[w] = <<>>
         /\ pc[w] = "idle" => (store' = store /\ matching(store) = {})]_vars

\* an idle answer after an earlier invocation processed every record
C17_Witness ==
  \E w \in Workers :
    /\ pc[w] = "respond"
    /\ response[w].kind = "idle"
    /\ runs = 2
    /\ \A id \in Records : store[id].status \in Terminal

(***************************************************************************)
(* C18.  As claimed: whether or not CRON_SECRET is set, an invocation      *)
(* whose request has no Authorization header, or a token other than the    *)
(* cron secret, answers 401 and has done nothing else: no batch query, no  *)
(* store write, no extraction, no metering call.                           *)
(***************************************************************************)
C18_NoSecretNoWork ==
  \A w \in Workers :
    (pc[w] # "idle" /\ (request[w] = Null \/ cronSecretOf(request[w]) # CRON_SECRET)) =>
      /\ pc[w] = "respond"
      /\ response[w] = [kind |-> "unauthorized", code |-> 401]
      /\ trace[w] = <<>>

(***************************************************************************)
(* Reading the kind of a record.                                           *)
(***************************************************************************)
\* the record is a plain-text or markdown file
isText(file) ==
  toLowerCase(file.fileType) \in {<<"text", "/", "plain">>, <<"text", "/", "markdown">>}

\* the record has an object key: its r2Key, or the part of blobUrl from "uploads" on
hasKey(file) ==
  \/ Truthy(file.r2Key)
  \/ file.blobUrl # Null /\ derivedR2Key(file) # Null

\* the calls the invocation logged for record id
callsFor(w, id) == { trace[w][k].val : k \in events(w, "calls", id) }

\* this list of calls is one download that returned
downloaded(cs) ==
  Len(cs) = 1 /\ cs[1].fn = "downloadFromR2" /\ ~cs[1].out.threw

\* the text these bytes encode in UTF-8
decoded(bytes) == [i \in 1..Len(bytes) |-> utf8Atom(bytes[i])]

(***************************************************************************)
(* C19.  As claimed: a text/plain or text/markdown record that a worker    *)
(* committed is stored as completed with tokensUsed 0 and with textContent *)
(* the UTF-8 decoding of the bytes downloaded from its object key; no AI   *)
(* call and no metering call was made for it.                              *)
(***************************************************************************)
C19_TextRoundTrip ==
  \A w \in Workers : \A id \in Records :
    (isText(store[id].file) /\ committed(w, id)) =>
      /\ store[id].status = "completed"
      /\ store[id].tokensUsed = 0
      /\ \A cs \in callsFor(w, id) :
           /\ downloaded(cs)
           /\ store[id].textContent = decoded(cs[1].out.value)
      /\ meterCalls(w, id) = {}

(***************************************************************************)
(* C19, amended.  For a text/plain or text/markdown record no AI call and  *)
(* no metering call is made, and tokensUsed stays 0.  Once a worker has    *)
(* committed it: if the record has an object key and the download of that  *)
(* key succeeded, it is stored as completed with textContent the UTF-8     *)
(* decoding of the downloaded bytes; if the download failed, or the record *)
(* has no object key (then nothing is downloaded), it is stored as error.  *)
(***************************************************************************)
C19_TextRoundTripWhenDownloaded ==
  \A w \in Workers : \A id \in Records :
    isText(store[id].file) =>
      /\ meterCalls(w, id) = {}
      /\ store[id].tokensUsed = 0
      /\ \A cs \in callsFor(w, id) :
           /\ \A i \in 1..Len(cs) : cs[i].fn = "downloadFromR2"
           /\ hasKey(store[id].file) <=> Len(cs) = 1
      /\ committed(w, id) =>
           \A cs \in callsFor(w, id) :
             IF downloaded(cs)
             THEN /\ store[id].status = "completed"
                  /\ store[id].error = Null
                  /\ store[id].textContent = decoded(cs[1].out.value)
             ELSE /\ store[id].status = "error"
                  /\ store[id].error # Null

\* a markdown file without a stored key, holding an invalid byte, was committed
C19_Witness ==
  \E w \in Workers : \E id \in Records :
    /\ store[id].file.fileType = <<"text", "/", "markdown">>
    /\ store[id].file.r2Key = Null
    /\ committed(w, id)
    /\ store[id].status = "completed"
    /\ store[id].textContent = <<"\\uFFFD">>
    /\ summarised(w)

\* the record is a PDF: its type, in lower case, names pdf
isPdf(file) ==
  \E i \in 1..Len(file.fileType) : toLowerCase(file.fileType)[i] = "pdf"

\* the record is an image for one of the two image strategies
isImageForKnownProcess(file) ==
  /\ startsWith(toLowerCase(file.fileType), <<"image", "/">>)
  /\ file.processType \in {Null, Empty, <<"standard-ocr">>, <<"magic-diagram">>}

\* no strategy takes the record
isUnknownKind(file) == ~isImageForKnownProcess(file) /\ ~isPdf(file) /\ ~isText(file)

\* the text says "Unsupported"
saysUnsupported(s) ==
  \E i \in 1..Len(s) : s[i] \in {"Unsupported file type/processType: ", "[Unsupported: "}

\* the extraction run on its own gives the same outcome whatever the external
\* services would answer
sameForEveryEnv ==
  \A e \in Envs :
    processSingleFileRecord(extraction.fileRecord, e)
      = processSingleFileRecord(extraction.fileRecord, extraction.env)

(***************************************************************************)
(* C20.  As claimed: for a PDF record, or a record no strategy takes, the  *)
(* extractor returns status error, tokensUsed 0 and an error that names    *)
(* the reason (with textContent saying "Unsupported" when no strategy      *)
(* takes the record), the same whatever the external services would        *)
(* answer, and makes no download and no AI call.                           *)
(***************************************************************************)
C20_UnsupportedIsZeroCostError ==
  (extraction.state # "called"
     /\ (isPdf(extraction.fileRecord) \/ isUnknownKind(extraction.fileRecord))) =>
    /\ extraction.state = "returned"
    /\ extraction.value.status = "error"
    /\ extraction.value.tokensUsed = 0
    /\ isPdf(extraction.fileRecord) =>
         extraction.value.error = <<"PDF processing not yet implemented.">>
    /\ isUnknownKind(extraction.fileRecord) =>
         /\ saysUnsupported(extraction.value.error)
         /\ saysUnsupported(extraction.value.textContent)
    /\ extractionCalls = <<>>
    /\ sameForEveryEnv

(***************************************************************************)
(* C20, amended.  For a PDF record, or a record no strategy takes, that    *)
(* has an object key (its r2Key, or one derivable from its blobUrl), the   *)
(* extractor returns status error, tokensUsed 0 and an error that names    *)
(* the reason (with textContent saying "Unsupported" when no strategy      *)
(* takes the record).  Without an object key but with a blobUrl it returns *)
(* status error, tokensUsed 0, textContent null and the error "Could not   *)
(* determine R2 key from blobUrl: ..."; with neither it throws (C10).  In  *)
(* every case the outcome is the same whatever the external services would *)
(* answer, and no download and no AI call is made.                         *)
(***************************************************************************)
C20_UnsupportedWithKey ==
  (extraction.state # "called"
     /\ (isPdf(extraction.fileRecord) \/ isUnknownKind(extraction.fileRecord))) =>
    /\ extractionCalls = <<>>
    /\ sameForEveryEnv
    /\ extraction.state = "threw" <=>
         (~Truthy(extraction.fileRecord.r2Key) /\ extraction.fileRecord.blobUrl = Null)
    /\ extraction.state = "returned" =>
         /\ extraction.value.status = "error"
         /\ extraction.value.tokensUsed = 0
         /\ extraction.value.generatedImageUrl = Null
         /\ IF hasKey(extraction.fileRecord)
            THEN /\ isPdf(extraction.fileRecord) =>
                      extraction.value.error = <<"PDF processing not yet implemented.">>
                 /\ isUnknownKind(extraction.fileRecord) =>
                      /\ saysUnsupported(extraction.value.error)
                      /\ saysUnsupported(extraction.value.textContent)
            ELSE /\ extraction.value.textContent = Null
                 /\ startsWith(extraction.value.error,
                               <<"Could not determine R2 key from blobUrl: ">>)

\* an archive for standard OCR, and a PDF whose type is not exactly application/pdf
C20_Witness ==
  /\ extraction.state = "returned"
  /\ extraction.fileRecord.fileType = <<"application", "/", "x-", "pdf">>
  /\ extraction.fileRecord.processType = <<"magic-diagram">>
  /\ extraction.fileRecord.r2Key = Null
  /\ hasKey(extraction.fileRecord)
  /\ extraction.value.error = <<"PDF processing not yet implemented.">>

(***************************************************************************)
(* C21.  As claimed: for a record with no r2Key and no object key          *)
(* derivable from its blobUrl, the extractor returns an error result with  *)
(* tokensUsed 0 and makes no download and no AI call, the record is        *)
(* committed as error, and the invocation goes on to the records after it. *)
(***************************************************************************)
C21_DerivationFailureIsErrorResult ==
  \A w \in Workers : \A id \in DOMAIN store :
    ~hasKey(store[id].file) =>
      /\ \A cs \in callsFor(w, id) : cs = <<>>
      /\ \A k \in events(w, "extract", id) :
           /\ trace[w][k].ok
           /\ trace[w][k].val.status = "error"
           /\ trace[w][k].val.tokensUsed = 0
      /\ \A k \in events(w, "commit", id) :
           (trace[w][k].ok /\ k = Len(trace[w])) => store[id].status = "error"
      /\ (summarised(w) /\ events(w, "extract", id) # {}) =>
           processedCount[w] + errorCount[w] = Len(pendingFiles[w])

(***************************************************************************)
(* C22.  As claimed: once processMagicDiagram has returned, after a        *)
(* success, a handled error or an exception at any step, the temporary     *)
(* file it created no longer exists; no sequence of runs leaves a          *)
(* temporary file behind.                                                  *)
(***************************************************************************)
C22_TempFileRemoved ==
  diagram.pc \in {"returned", "off"} => tmpdir = {}

(***************************************************************************)
(* C22, amended.  Once processMagicDiagram has returned, the only          *)
(* temporary files that exist are those whose deletion by fs.unlinkSync    *)
(* in the finally block threw; every other run has removed its file.       *)
(***************************************************************************)
C22_TempFileRemovedUnlessUnlinkFails ==
  diagram.pc \in {"returned", "off"} => tmpdir \subseteq diagram.kept

\* a second run has returned its diagram and no temporary file is left
C22_Witness ==
  /\ diagram.pc = "returned"
  /\ diagram.value = "generated"
  /\ diagram.calls = 2
  /\ diagram.tempImagePath # Null
  /\ tmpdir = {}

(***************************************************************************)
(* Reading a call of processSyncQueue that has returned.                   *)
(***************************************************************************)
\* the call of driver d has returned
drained(d) == drain[d].pc = "done"

\* handleFileProcess gave an error result or threw
uploadFailed(d) ==
  \/ drain[d].outcome.threw
  \/ drain[d].outcome.status = <<"error">>

\* handleFileProcess gave a result with status completed
uploadCompleted(d) ==
  ~drain[d].outcome.threw /\ drain[d].outcome.status = <<"completed">>

\* the entries of queue other than id, in their order
RECURSIVE without(_, _)
without(queue, id) ==
  IF queue = <<>> THEN <<>>
  ELSE IF queue[1] = id THEN without(Tail(queue), id)
  ELSE <<queue[1]>> \o without(Tail(queue), id)

\* the call marked the entry error with the reason of the failed upload and a
\* timestamp, and wrote the queue it read with the entry moved to the tail
markedAndMovedToTail(d) ==
  /\ drain[d].wrote.metadata.status = <<"error">>
  /\ drain[d].wrote.metadata.error = uploadError(drain[d].outcome)
  /\ drain[d].wrote.metadata.lastAttempt > 0
  /\ drain[d].wrote.queueWritten
  /\ Len(drain[d].wrote.queue) = Len(drain[d].read)
  /\ drain[d].wrote.queue[Len(drain[d].read)] = drain[d].localId
  /\ without(drain[d].wrote.queue, drain[d].localId) = without(drain[d].read, drain[d].localId)

(***************************************************************************)
(* C23.  As claimed: when the upload of the head entry fails (error result *)
(* or exception), the call marks the entry's metadata error with the       *)
(* reason and a lastAttempt timestamp and moves the entry to the tail of   *)
(* the persisted queue: same entries, the others in their order, the       *)
(* failed entry last.                                                      *)
(***************************************************************************)
C23_FailedUploadMovesToTail ==
  \A d \in Drivers : (drained(d) /\ uploadFailed(d)) => markedAndMovedToTail(d)

(***************************************************************************)
(* The call does so when none of its writes of metadata.json and           *)
(* sync_queue.json fails; a write that fails once leads into the catch     *)
(* block, which marks and moves the entry a second time.                   *)
(***************************************************************************)
FailedUploadMovesToTailWhenWritten ==
  \A d \in Drivers :
    (drained(d) /\ uploadFailed(d) /\ ~drain[d].failed) => markedAndMovedToTail(d)

\* a failed upload of the head of a queue of two entries, all writes done
FailedUploadMoved ==
  \E d \in Drivers :
    /\ drained(d) /\ uploadFailed(d) /\ ~drain[d].failed
    /\ Len(drain[d].read) = 2
    /\ disk.queue = <<drain[d].read[2], drain[d].read[1]>>
    /\ disk.items[drain[d].localId].metadata.status = <<"error">>

(***************************************************************************)
(* C24.  As claimed: when the upload of the head entry gives a result with *)
(* status completed, the call persists the entry's metadata with status    *)
(* completed and no error and removes exactly that entry from the          *)
(* persisted queue; the other entries stay, in the same order.             *)
(***************************************************************************)
markedAndRemoved(d) ==
  /\ drain[d].wrote.metadata.status = <<"completed">>
  /\ drain[d].wrote.metadata.error = Null
  /\ drain[d].wrote.queueWritten
  /\ drain[d].read[1] = drain[d].localId
  /\ drain[d].wrote.queue = Tail(drain[d].read)

C24_CompletedUploadLeavesQueue ==
  \A d \in Drivers : (drained(d) /\ uploadCompleted(d)) => markedAndRemoved(d)

(***************************************************************************)
(* The call does so when none of its writes of metadata.json and           *)
(* sync_queue.json fails; a write that fails once leads into the catch     *)
(* block, which marks the uploaded entry error.                            *)
(***************************************************************************)
CompletedUploadLeavesQueueWhenWritten ==
  \A d \in Drivers :
    (drained(d) /\ uploadCompleted(d) /\ ~drain[d].failed) => markedAndRemoved(d)

\* a completed upload of the head of a queue of two entries, all writes done
CompletedUploadRemoved ==
  \E d \in Drivers :
    /\ drained(d) /\ uploadCompleted(d) /\ ~drain[d].failed
    /\ Len(drain[d].read) = 2
    /\ disk.queue = <<drain[d].read[2]>>
    /\ disk.items[drain[d].localId].metadata.status = <<"completed">>

(***************************************************************************)
(* C25.  As claimed: a call of addToSyncQueue leaves the persisted queue   *)
(* as it was when the id is in it, and appends the id at the tail when it  *)
(* is not; so no id is in the queue twice.                                 *)
(***************************************************************************)
has(queue, id) == id \in { queue[i] : i \in 1..Len(queue) }

\* the persisted queue; no sync_queue.json counts as the empty queue
persistedQueue == IF disk.queueExists THEN disk.queue ELSE <<>>

C25_EnqueueIdempotent ==
  [][saver.pc = "qwrite" =>
       disk'.queue = IF has(persistedQueue, saver.localId) THEN disk.queue
                     ELSE Append(persistedQueue, saver.localId)]_vars

(***************************************************************************)
(* The call does so when it could read sync_queue.json and its write of    *)
(* the file did not fail.  When the read fails the call starts from an     *)
(* empty queue and writes it over the persisted one.                       *)
(***************************************************************************)
EnqueueIdempotentWhenFileWorks ==
  [][(saver.pc = "qwrite" /\ saver.queue = persistedQueue /\ glitches' = glitches) =>
       /\ disk'.queue = IF has(persistedQueue, saver.localId) THEN disk.queue
                        ELSE Append(persistedQueue, saver.localId)
       /\ \A i, j \in 1..Len(disk'.queue) :
            i # j => disk'.queue[i] # disk'.queue[j]]_vars

\* addToSyncQueue has returned for an id that was in a queue of two entries
EnqueuedAgain ==
  /\ saver.pc = "ret" /\ saver.direct
  /\ Len(saver.queue) = 2
  /\ has(saver.queue, saver.localId)
  /\ disk.queue = saver.queue

(***************************************************************************)
(* C26.  As claimed: a call of processSyncQueue that removes the head      *)
(* entry without uploading it, other than an entry already completed,      *)
(* does so only when the entry has no content file on disk, and has then   *)
(* annotated the entry with an error.                                      *)
(***************************************************************************)
\* the item directory holds a file besides metadata.json
contentOnDisk(id) == itemOf(id).files \ {MetadataJson} # {}

\* handleFileProcess was called
uploaded(d) == drain[d].outcome.threw \/ drain[d].outcome.status # Null

C26_DroppedOnlyWithoutContent ==
  \A d \in Drivers :
    (/\ drained(d)
     /\ ~uploaded(d)
     /\ drain[d].wrote.queueWritten
     /\ drain[d].metadata.status # <<"completed">>) =>
      /\ ~contentOnDisk(drain[d].localId)
      /\ drain[d].wrote.metadata.status = <<"error">>
      /\ drain[d].wrote.metadata.error # Null

(***************************************************************************)
(* C27.  As claimed: every id in the persisted queue has its metadata and  *)
(* its content in its item directory, so no upload is attempted for an     *)
(* entry whose content was not persisted.                                  *)
(***************************************************************************)
C27_QueuedAfterContent ==
  /\ \A i \in 1..Len(disk.queue) :
       disk.queue[i] \in Items =>
         /\ MetadataJson \in itemOf(disk.queue[i]).files
         /\ contentOnDisk(disk.queue[i])
  /\ \A k \in 1..Len(journal) :
       journal[k].op = "upload" => contentOnDisk(journal[k].id)

(***************************************************************************)
(* C28.  As claimed: when saveFileLocally throws, no item directory with   *)
(* metadata and without content is left, and the item is not in the queue. *)
(***************************************************************************)
C28_NoHalfSavedItem ==
  saver.pc = "threw" =>
    /\ ~(MetadataJson \in itemOf(saver.localId).files /\ ~contentOnDisk(saver.localId))
    /\ ~has(persistedQueue, saver.localId)

(***************************************************************************)
(* C29.  As claimed: at most one call of processSyncQueue is in flight at  *)
(* any time, whatever calls of startBackgroundSync and timers came.        *)
(***************************************************************************)
C29_OneDrainInFlight ==
  Cardinality({ d \in Drivers : drain[d].pc \in {"read", "upload", "write"} }) <= 1

(***************************************************************************)
(* Reading the history of a call of pollForResults.                        *)
(***************************************************************************)
\* the k-th thing the call did was a request answered OK with this status
answered(k, statuses) ==
  /\ poll.history[k].op = "request"
  /\ poll.history[k].response.ok
  /\ poll.history[k].response.body.status \in statuses

\* the requests among the first k things the call did
requestsUpTo(k) ==
  Cardinality({ j \in 1..k : poll.history[j].op = "request" })

\* the call was in the polling loop
polled == ~poll.isTextFile /\ poll.pc # "off"

\* a terminal answer is the last thing the call did, and it is returned
\* with the fileId of the call
returnedAtOnce(k) ==
  /\ k = Len(poll.history)
  /\ poll.pc = "done"
  /\ poll.ret = [poll.history[k].response.body EXCEPT !.fileId = poll.fileId.digits]

\* after the k-th thing the call slept the poll interval
sleptAfter(k) ==
  /\ Len(poll.history) > k
  /\ poll.history[k + 1] = Slept("pollInterval")

\* after that sleep the call sent the next request
polledAgainAfter(k) ==
  /\ Len(poll.history) > k + 1
  /\ poll.history[k + 2].op = "request"

(***************************************************************************)
(* C30.  As claimed: in the polling loop an answer with status completed   *)
(* or error is returned at once with the fileId and no request follows     *)
(* it; after an answer with status pending or processing the call waits    *)
(* the poll interval and polls again.                                      *)
(***************************************************************************)
C30_TerminalReturnsOthersPollAgain ==
  polled =>
    \A k \in 1..Len(poll.history) :
      /\ answered(k, {<<"completed">>, <<"error">>}) => returnedAtOnce(k)
      /\ (answered(k, {<<"pending">>, <<"processing">>}) /\ poll.pc = "done") =>
           sleptAfter(k) /\ polledAgainAfter(k)

(***************************************************************************)
(* C30, amended.  The same, but after an answer with status pending or     *)
(* processing to the request that was attempt number maxAttempts the call  *)
(* waits the poll interval and returns the timeout error without polling   *)
(* again.                                                                  *)
(***************************************************************************)
C30_TerminalReturnsOthersPollAgainBelowMax ==
  polled =>
    \A k \in 1..Len(poll.history) :
      /\ answered(k, {<<"completed">>, <<"error">>}) => returnedAtOnce(k)
      /\ (answered(k, {<<"pending">>, <<"processing">>}) /\ poll.pc = "done") =>
           /\ sleptAfter(k)
           /\ IF requestsUpTo(k) < poll.maxAttempts
              THEN polledAgainAfter(k)
              ELSE /\ Len(poll.history) = k + 1
                   /\ poll.ret.status = <<"error">>
                   /\ poll.ret.error = <<"Timed out waiting for processing results">>

\* pending, then processing, then error: three requests, the third returned
C30_Witness ==
  /\ polled /\ poll.pc = "done"
  /\ Len(poll.history) = 6
  /\ answered(2, {<<"pending">>})
  /\ answered(4, {<<"processing">>})
  /\ answered(6, {<<"error">>})
  /\ poll.ret.status = <<"error">>
  /\ poll.ret.fileId = <<"7">>
  /\ poll.fileId.isNumber

\* the requests of the call with their responses, in order
requests ==
  SelectSeq(poll.history, LAMBDA e : e.op = "request")

\* the j-th request was answered 404
notFound(j) ==
  /\ ~requests[j].response.threw
  /\ ~requests[j].response.ok
  /\ requests[j].response.status = 404

\* the j-th request was answered OK with a status completed or error
terminalAnswer(j) ==
  /\ requests[j].response.ok
  /\ requests[j].response.body.status \in {<<"completed">>, <<"error">>}

(***************************************************************************)
(* C31.  In the polling loop, when the first k requests are answered 404   *)
(* and the next one gets a terminal status, that request is the last:      *)
(* the call has made exactly k + 1 requests and returns the terminal       *)
(* payload with its fileId.                                                *)
(***************************************************************************)
C31_NotFoundIsRetried ==
  polled =>
    \A k \in 0..MaxAttempts + 1 :
      (/\ Len(requests) > k
       /\ \A j \in 1..k : notFound(j)
       /\ terminalAnswer(k + 1)) =>
        /\ Len(requests) = k + 1
        /\ k < poll.maxAttempts
        /\ poll.pc = "done"
        /\ poll.ret = [requests[k + 1].response.body EXCEPT !.fileId = poll.fileId.digits]

\* 404, 404, then completed: exactly three requests
C31_Witness ==
  /\ polled /\ poll.pc = "done"
  /\ Len(requests) = 3
  /\ notFound(1) /\ notFound(2)
  /\ requests[3].response.ok
  /\ requests[3].response.body.status = <<"completed">>
  /\ poll.ret.status = <<"completed">>
  /\ poll.ret.text = <<"markdown">>
  /\ poll.ret.fileId = <<"7">>

(***************************************************************************)
(* C32.  The polling path always returns, after at most maxAttempts        *)
(* requests; when none of maxAttempts requests got a terminal status the   *)
(* result is an error that reports the exhausted attempts; every result    *)
(* has status completed or error.                                          *)
(***************************************************************************)
pollReturned == poll.pc \in {"done", "off"}

exhausted ==
  /\ Len(requests) = poll.maxAttempts
  /\ \A j \in 1..Len(requests) : ~terminalAnswer(j)

C32_PollingEnds ==
  /\ [](polled => Len(requests) <= poll.maxAttempts)
  /\ []((polled /\ pollReturned) =>
          /\ poll.ret.status \in {<<"completed">>, <<"error">>}
          /\ exhausted =>
               /\ poll.ret.status = <<"error">>
               /\ poll.ret.error \in
                    {<<"Timed out waiting for processing results">>,
                     <<"Max polling attempts reached after error">>})
  /\ (poll.pc \in {"delay", "while", "fetch", "sleep"}) ~> (poll.pc = "done")

\* three requests, none with a terminal status, and the timeout is returned
C32_Witness ==
  /\ polled /\ poll.pc = "done"
  /\ poll.maxAttempts = 3
  /\ exhausted
  /\ notFound(1)
  /\ requests[2].response.threw
  /\ requests[3].response.body.status = <<"processing">>
  /\ poll.ret.error = <<"Timed out waiting for processing results">>

(***************************************************************************)
(* C33.  With isTextFile the call does not poll: it makes one request and  *)
(* nothing else, sleeps never, and returns the fields of the response      *)
(* with its fileId (status completed when the response has none), or an    *)
(* error result when the request fails.                                    *)
(***************************************************************************)
C33_TextFileSkipsPolling ==
  (poll.isTextFile /\ poll.pc # "off") =>
    /\ poll.pc \in {"text", "done"}
    /\ poll.attempts = 0
    /\ \A k \in 1..Len(poll.history) : poll.history[k].op = "request"
    /\ Len(poll.history) = IF poll.pc = "done" THEN 1 ELSE 0
    /\ poll.pc = "done" =>
         LET answer == poll.history[1].response IN
         IF answer.ok
         THEN poll.ret = [answer.body EXCEPT
                            !.fileId = poll.fileId.digits,
                            !.status = IF answer.body.status \in {Null, Empty}
                                       THEN <<"completed">> ELSE @]
         ELSE /\ poll.ret.status = <<"error">>
              /\ poll.ret.fileId = poll.fileId.digits

\* a text upload whose single request gave the completed result
C33_Witness ==
  /\ poll.isTextFile /\ poll.pc = "done"
  /\ Len(poll.history) = 1
  /\ poll.history[1].response.ok
  /\ poll.ret.status = <<"completed">>
  /\ poll.ret.text = <<"markdown">>
  /\ poll.ret.fileId = <<"7">>

(***************************************************************************)
(* Reading a preview.                                                      *)
(***************************************************************************)
\* a call of generateTextPreview has returned
previewed == saver.pc = "previewed"

isPrefix(s, t) == Len(s) <= Len(t) /\ s = SubSeq(t, 1, Len(s))

\* a paragraph or sentence boundary starts at index p of text, from 0
boundaryAt(text, p) ==
  /\ p >= 0 /\ p + 2 <= Len(text)
  /\ SubSeq(text, p + 1, p + 2) \in
       { <<"\n", "\n">>, <<".", " ">>, <<"?", " ">>, <<"!", " ">> }

(***************************************************************************)
(* C34.  As claimed: the preview is a prefix of the text, cut directly     *)
(* after the start of a paragraph or sentence boundary within maxLength    *)
(* when the text has one there, and at maxLength otherwise.                *)
(***************************************************************************)
C34_PreviewIsPrefix ==
  previewed =>
    LET text == saver.file.text
        preview == saver.preview
        within == { p \in 0..saver.maxLength - 1 : boundaryAt(text, p) }
    IN /\ isPrefix(preview, text)
       /\ Len(text) > saver.maxLength =>
            IF within # {} THEN Len(preview) - 1 \in within
            ELSE Len(preview) = saver.maxLength

(***************************************************************************)
(* C34, amended.  A text no longer than maxLength is its own preview.  Of  *)
(* a longer text the preview is a prefix of the text followed by "...";    *)
(* the prefix ends directly after the start of a paragraph or sentence     *)
(* boundary that lies at or after index maxLength / 2 and before           *)
(* maxLength when the text has one there, and has length maxLength         *)
(* otherwise.                                                              *)
(***************************************************************************)
C34_PreviewIsPrefixAndEllipsis ==
  previewed =>
    LET text == saver.file.text
        preview == saver.preview
        kept == Len(preview) - 3
        window == { p \in (saver.maxLength \div 2)..(saver.maxLength - 1) :
                      boundaryAt(text, p) }
    IN IF Len(text) <= saver.maxLength THEN preview = text
       ELSE /\ kept >= 0
            /\ preview = SubSeq(text, 1, kept) \o <<".", ".", ".">>
            /\ IF window # {} THEN kept - 1 \in window
               ELSE kept = saver.maxLength

\* a text cut after its first sentence, which ends inside the window
C34_Witness ==
  /\ previewed
  /\ saver.file.text = <<"a", "a", ".", " ", "a">>
  /\ saver.maxLength = 4
  /\ saver.preview = <<"a", "a", ".", ".", ".", ".">>

(***************************************************************************)
(* C35.  As claimed: an id that is in the persisted queue stays in it,     *)
(* also when it was added while a call of processSyncQueue was between     *)
(* its read and its write of the queue; an id leaves the queue only as     *)
(* the head entry of a call whose upload completed, that found the entry   *)
(* already completed, or that dropped it as corrupt.                       *)
(***************************************************************************)
\* the call of driver d removes its head entry for one of the three reasons
removesHead(d, id) ==
  /\ drain[d].pc = "write"
  /\ drain[d].localId = id
  /\ \/ uploadCompleted(d)
     \/ ~uploaded(d)

C35_EnqueuedStaysQueued ==
  [][\A id \in Items :
       (has(persistedQueue, id) /\ ~has(disk'.queue, id)) =>
         \E d \in Drivers : removesHead(d, id)]_vars

(***************************************************************************)
(* C36.  With one invocation at a time, killed or not, the metering        *)
(* service is called at most once per record, and only when the record is  *)
(* stored as completed.  A call is made only from the metering step, which *)
(* an invocation enters once per record, by the commit write that turns    *)
(* the record from not completed to completed; a completed record stays    *)
(* completed, so no later invocation enters the step for it again.         *)
(***************************************************************************)
C36_MeteredOncePerRecord ==
  /\ [](\A w \in Workers :
         /\ \A id \in Records : Cardinality(meterCalls(w, id)) <= 1
         /\ pc[w] = "meter" =>
              /\ store[fileId(w)].status = "completed"
              /\ committed(w, fileId(w))
              /\ meterCalls(w, fileId(w)) = {})
  /\ [][\A w \in Workers :
          /\ (pc[w] # "meter" /\ pc'[w] = "meter") =>
               /\ store[fileId(w)].status # "completed"
               /\ store'[fileId(w)].status = "completed"
          /\ (Len(trace'[w]) > Len(trace[w]) /\ trace'[w][Len(trace'[w])].op = "meter") =>
               pc[w] = "meter"]_vars
  /\ [][\A id \in Records :
          store[id].status = "completed" => store'[id].status = "completed"]_vars

\* the second invocation is about to meter a record while another record is
\* stored as completed with its tokens since the first invocation
C36_Witness ==
  /\ runs = 2
  /\ pc["A"] = "meter"
  /\ \E id \in Records :
       /\ id # fileId("A")
       /\ \A i \in positions("A") : pendingFiles["A"][i].file.id # id
       /\ store[id].status = "completed"
       /\ store[id].tokensUsed > 0

(***************************************************************************)
(* Reading the order of an invocation's work on its batch.                 *)
(***************************************************************************)
\* the position of record id in the batch
positionOf(w, id) == CHOOSE i \in positions(w) : pendingFiles[w][i].file.id = id

\* the events of the trace that belong to a record
ofRecord(w) == { k \in 1..Len(trace[w]) : trace[w][k].op # "fetch" }

\* the work on the records follows the order of the batch
inFetchOrder(w) ==
  \A k, l \in ofRecord(w) :
    k < l => positionOf(w, trace[w][k].id) <= positionOf(w, trace[w][l].id)

\* the event at k ends the work on its record: a commit write that is not
\* followed by metering, a metering call, or a fallback write
endsRecord(w, k) ==
  \/ trace[w][k].op \in {"meter", "fallback"}
  \/ /\ trace[w][k].op = "commit" /\ trace[w][k].ok
     /\ trace[w][k - 1].op = "extract"
     /\ ~metered(trace[w][k - 1].val)

\* the work on a record other than the first starts right after the end of
\* the work on the record before it
startsAfterPrevious(w) ==
  \A k \in ofRecord(w) :
    (trace[w][k].op \in {"claim", "resume"} /\ positionOf(w, trace[w][k].id) > 1) =>
      /\ k > 1
      /\ trace[w][k - 1].id = pendingFiles[w][positionOf(w, trace[w][k].id) - 1].file.id
      /\ endsRecord(w, k - 1)

\* the claim write of this invocation for record id succeeded
claimedBy(w, id) == \E k \in events(w, "claim", id) : trace[w][k].ok

\* a commit write or a fallback write of this invocation for id succeeded
written(w, id) ==
  \E k \in events(w, "commit", id) \cup events(w, "fallback", id) : trace[w][k].ok

\* the records of the batch claimed by this invocation and not written since
claimedNotCommitted(w) ==
  { id \in { pendingFiles[w][i].file.id : i \in positions(w) } :
      claimedBy(w, id) /\ ~written(w, id) }

\* the records after the current one are stored as they were fetched
laterRecordsUntouched(w) ==
  \A j \in positions(w) :
    j > idx[w] => store[pendingFiles[w][j].file.id].status = pendingFiles[w][j].status

(***************************************************************************)
(* C37.  As claimed: an invocation works on the records of its batch one   *)
(* at a time in fetch order, the work on a record starting only after the  *)
(* commit or fallback write and the metering call of the record before;    *)
(* at most one record of the batch is claimed by the invocation and not    *)
(* yet committed; the records after the current one keep their fetched     *)
(* status.                                                                 *)
(***************************************************************************)
C37_OneRecordAtATime ==
  \A w \in Workers :
    /\ inFetchOrder(w)
    /\ startsAfterPrevious(w)
    /\ Cardinality(claimedNotCommitted(w)) <= 1
    /\ laterRecordsUntouched(w)

(***************************************************************************)
(* C37, amended.  The same, except that a record whose fallback write      *)
(* threw stays claimed and not committed while the invocation works on     *)
(* the records after it: at most one record of the batch is claimed and    *)
(* not committed besides those whose fallback write threw.                 *)
(***************************************************************************)
C37_OneRecordAtATimeUnlessFallbackFailed ==
  \A w \in Workers :
    /\ inFetchOrder(w)
    /\ startsAfterPrevious(w)
    /\ Cardinality({ id \in claimedNotCommitted(w) : ~fallbackFailed(w, id) }) <= 1
    /\ \A id \in claimedNotCommitted(w) :
         fallbackFailed(w, id) \/ (pc[w] # "respond" /\ id = fileId(w))
    /\ laterRecordsUntouched(w)

\* the second record is claimed after the first was committed and metered
C37_Witness ==
  \E w \in Workers :
    /\ Len(pendingFiles[w]) = 2 /\ idx[w] = 2 /\ pc[w] = "extract"
    /\ claimedBy(w, pendingFiles[w][2].file.id)
    /\ meterCalls(w, pendingFiles[w][1].file.id) # {}
    /\ store[pendingFiles[w][1].file.id].status = "completed"
    /\ store[pendingFiles[w][2].file.id].status = "processing"

(***************************************************************************)
(* C38.  When an invocation that fetched n >= 1 records returns its        *)
(* summary, Attempted is n and Succeeded + Errors is n; Succeeded counts   *)
(* the records whose completed result was committed, Errors the records    *)
(* whose result was error or for which a claim write, the extractor or a   *)
(* commit write threw; no record is in both counts.                        *)
(***************************************************************************)
\* the records of the batch that count as succeeded: the commit write of a
\* completed result went through
succeededRecords(w) ==
  { i \in positions(w) :
      LET id == pendingFiles[w][i].file.id
      IN  committed(w, id) /\ \E res \in returnedFor(w, id) : res.status = "completed" }

\* the records of the batch that count as failed
failedRecords(w) ==
  { i \in positions(w) :
      LET id == pendingFiles[w][i].file.id
      IN  \/ committed(w, id) /\ \E res \in returnedFor(w, id) : res.status = "error"
          \/ \E k \in 1..Len(trace[w]) : trace[w][k].id = id /\ threwAt(w, k) }

C38_EveryRecordCountedOnce ==
  \A w \in Workers :
    summarised(w) =>
      /\ Len(pendingFiles[w]) >= 1
      /\ response[w].attempted = Len(pendingFiles[w])
      /\ response[w].succeeded + response[w].errors = Len(pendingFiles[w])
      /\ response[w].succeeded = Cardinality(succeededRecords(w))
      /\ response[w].errors = Cardinality(failedRecords(w))
      /\ succeededRecords(w) \cap failedRecords(w) = {}

\* a batch of two: one record committed as completed, one whose commit write
\* threw
C38_Witness ==
  \E w \in Workers :
    /\ summarised(w)
    /\ response[w].attempted = 2
    /\ response[w].succeeded = 1
    /\ response[w].errors = 1
    /\ \E k \in 1..Len(trace[w]) : trace[w][k].op = "commit" /\ ~trace[w][k].ok

(***************************************************************************)
(* C39.  As claimed, in the part that every call must keep for the rest    *)
(* to follow: when a call of processSyncQueue has returned and the upload  *)
(* of its head entry did not complete, that entry is no longer the head of *)
(* a queue that holds other entries, so the next call attempts another     *)
(* entry.                                                                  *)
(***************************************************************************)
C39_UnfinishedHeadDoesNotBlock ==
  \A d \in Drivers :
    (/\ drained(d)
     /\ uploaded(d)
     /\ ~uploadCompleted(d)
     /\ Len(drain[d].read) >= 2
     /\ persistedQueue # <<>>) =>
      persistedQueue[1] # drain[d].localId


(***************************************************************************)
(* C40.  As claimed: a call that finds the metadata of the head entry      *)
(* completed does not upload it and writes the queue without it, and no    *)
(* upload of an entry follows a write of its metadata with status          *)
(* completed.                                                              *)
(***************************************************************************)
\* the call found the metadata of its head entry completed
skipped(d) ==
  /\ drained(d)
  /\ ~uploaded(d)
  /\ drain[d].localId \in Items
  /\ drain[d].metadata.status = <<"completed">>

\* metadata.json of the entry was written with status completed at position k
persistedCompleted(k, id) ==
  /\ journal[k].op = "metadata"
  /\ journal[k].id = id
  /\ journal[k].val = <<"completed">>

\* handleFileProcess ran for the entry at position j, after position k
uploadedAfter(k, id) ==
  \E j \in (k + 1)..Len(journal) : journal[j].op = "upload" /\ journal[j].id = id

C40_CompletedIsNotUploadedAgain ==
  /\ \A d \in Drivers :
       (skipped(d) /\ ~drain[d].failed) =>
         /\ drain[d].wrote.queueWritten
         /\ drain[d].wrote.queue = shift(drain[d].read)
  /\ \A k \in 1..Len(journal) : \A id \in Items :
       persistedCompleted(k, id) => ~uploadedAfter(k, id)

====
